---- MODULE Spec2Model ----
(***************************************************************************)
(* A state-machine model of the rhythm game's timing core: Clock,          *)
(* GameLoop, Note, JudgmentSystem, ScoreSystem, AudioManager, InputManager *)
(* and the Game orchestrator.                                              *)
(*                                                                         *)
(* Time is in integer milliseconds (performance.now() readings are drawn   *)
(* from the list Instants).  The GameLoop's timestep 1000/60 ms is not an  *)
(* integer, so the loop's accumulator is kept in thirds of a millisecond.  *)
(* Render-facing fields (Note._y, Note._endY, sprites) are not modelled.   *)
(***************************************************************************)
EXTENDS Integers, Sequences, FiniteSets, TLC

VARIABLES
    now,            \* performance.now(), ms
    clock,          \* Clock: startTime, pauseTime, isRunning, offset
    audio,          \* AudioManager: isPlaying, hasContext, hasBuffer, hasSource, ...
    loop,           \* GameLoop: isRunning, lastTime, accumulator, animationFrameId
    frames,         \* host: the set of requestAnimationFrame ids still queued
    input,          \* InputManager: keyState, laneState; and the keys physically down
    game,           \* Game: state, chart, audioInitialized, initPending (start awaits initAudio)
    notes,          \* Game.notes: sequence of Note records
    holdingNotes,   \* Game.holdingNotes: lane -> index into notes (0 = no entry)
    score,          \* ScoreSystem: score, combo, maxCombo, stats
    last,           \* history: the most recent operation and what it returned
    hist            \* history: per-note counters and the time held at Game.pause

vars == <<now, clock, audio, loop, frames, input, game, notes, holdingNotes, score, last, hist>>

----------------------------------------------------------------------------
(* Program constants *)

\* JudgmentSystem.MISS_WINDOW
MISS_WINDOW == 200

\* Note.updatePosition: a note more than this late is missed (literal 200)
NOTE_LATE_LIMIT == 200

\* Note.release: a release with more than this remaining is premature (literal 200)
RELEASE_LIMIT == 200

\* LAYOUT.NOTE_SPAWN_OFFSET
NOTE_SPAWN_OFFSET == 2000

\* Game.update: the song ends this long after the last note (literal 2000)
SONG_END_DELAY == 2000

\* LAYOUT.LANE_COUNT
LANE_COUNT == 4

\* GameLoop.maxAccumulator = timestep * 5
MAX_FRAME_STEPS == 5

\* The loop's time unit: thirds of a millisecond per millisecond
Thirds(ms) == 3 * ms

\* LAYOUT.FIXED_TIMESTEP = 1000 / 60 ms, in thirds of a millisecond (= 50)
FIXED_TIMESTEP == Thirds(1000) \div 60

\* JudgmentSystem.JUDGMENT_WINDOWS, in table order
JUDGMENT_WINDOWS ==
    << [judgment |-> "PERFECT", window |-> 25,  score |-> 1000],
       [judgment |-> "GREAT",   window |-> 50,  score |-> 800],
       [judgment |-> "GOOD",    window |-> 100, score |-> 500],
       [judgment |-> "BAD",     window |-> 150, score |-> 200] >>

\* "no value": null / undefined
NULL == [judgment |-> "NONE", timeDiff |-> 0, score |-> 0]

Abs(x) == IF x < 0 THEN -x ELSE x

Max(a, b) == IF a >= b THEN a ELSE b

----------------------------------------------------------------------------
(* Note *)

\* Note constructor
NewNote(d) ==
    [ type |-> d.type, time |-> d.time, lane |-> d.lane, duration |-> d.duration,
      endTime |-> d.time + d.duration,
      isActive |-> FALSE, isHit |-> FALSE, isMissed |-> FALSE,
      isHolding |-> FALSE, holdCompleted |-> FALSE ]

\* updatePosition with "timeDiff <= -200" in the two miss tests
Note_updatePosition_inclusive(n, currentTime) ==
    LET timeDiff == n.time - currentTime
        a1 == IF timeDiff <= NOTE_SPAWN_OFFSET /\ ~n.isHit /\ ~n.isMissed
              THEN [n EXCEPT !.isActive = TRUE] ELSE n
        a2 == IF n.type = "tap" /\ timeDiff <= -NOTE_LATE_LIMIT /\ ~a1.isHit
              THEN [a1 EXCEPT !.isMissed = TRUE, !.isActive = FALSE] ELSE a1
        a3 == IF n.type = "hold" /\ timeDiff <= -NOTE_LATE_LIMIT /\ ~a2.isHit /\ ~a2.isHolding
              THEN [a2 EXCEPT !.isMissed = TRUE, !.isActive = FALSE] ELSE a2
        a4 == IF n.type = "hold" /\ a3.isHolding /\ currentTime >= n.endTime
              THEN [a3 EXCEPT !.holdCompleted = TRUE, !.isActive = FALSE] ELSE a3
    IN  a4

\* Note.updatePosition(currentTime): the four conditionals in source order
Note_updatePosition(n, currentTime) ==
    LET timeDiff == n.time - currentTime
        a1 == IF timeDiff <= NOTE_SPAWN_OFFSET /\ ~n.isHit /\ ~n.isMissed
              THEN [n EXCEPT !.isActive = TRUE] ELSE n
        a2 == IF n.type = "tap" /\ timeDiff < -NOTE_LATE_LIMIT /\ ~a1.isHit
              THEN [a1 EXCEPT !.isMissed = TRUE, !.isActive = FALSE] ELSE a1
        a3 == IF n.type = "hold" /\ timeDiff < -NOTE_LATE_LIMIT /\ ~a2.isHit /\ ~a2.isHolding
              THEN [a2 EXCEPT !.isMissed = TRUE, !.isActive = FALSE] ELSE a2
        a4 == IF n.type = "hold" /\ a3.isHolding /\ currentTime >= n.endTime
              THEN [a3 EXCEPT !.holdCompleted = TRUE, !.isActive = FALSE] ELSE a3
    IN  a4

\* Note.hit()
Note_hit(n) ==
    IF n.type = "tap" THEN [n EXCEPT !.isHit = TRUE, !.isActive = FALSE]
    ELSE IF n.type = "hold" THEN [n EXCEPT !.isHit = TRUE, !.isHolding = TRUE]
    ELSE [n EXCEPT !.isHit = TRUE]

\* Note.release with the premature test dropped: every release of a held hold succeeds
Note_release_noEarly(n, currentTime) ==
    IF n.type # "hold" \/ ~n.isHolding THEN [note |-> n, ok |-> FALSE]
    ELSE [note |-> [n EXCEPT !.isHolding = FALSE, !.holdCompleted = TRUE, !.isActive = FALSE],
          ok |-> TRUE]

\* Note.release(currentTime): the note afterwards and the returned boolean
Note_release(n, currentTime) ==
    IF n.type # "hold" \/ ~n.isHolding THEN [note |-> n, ok |-> FALSE]
    ELSE LET remainingTime == n.endTime - currentTime
         IN  IF remainingTime > RELEASE_LIMIT
             THEN [note |-> [n EXCEPT !.isHolding = FALSE, !.isActive = FALSE], ok |-> FALSE]
             ELSE [note |-> [n EXCEPT !.isHolding = FALSE, !.holdCompleted = TRUE,
                                      !.isActive = FALSE],
                   ok |-> TRUE]

\* Note.miss()
Note_miss(n) == [n EXCEPT !.isMissed = TRUE, !.isActive = FALSE, !.isHolding = FALSE]

\* Note.isProcessed
Note_isProcessed(n) ==
    IF n.type = "tap" THEN n.isHit \/ n.isMissed
    ELSE n.holdCompleted \/ n.isMissed

----------------------------------------------------------------------------
(* JudgmentSystem *)

RECURSIVE WalkWindows(_, _, _)
\* the for-loop of judge: the first window, from index k on, that timeDiff fits
WalkWindows(k, absDiff, signedDiff) ==
    IF k > Len(JUDGMENT_WINDOWS) THEN NULL
    ELSE IF absDiff <= JUDGMENT_WINDOWS[k].window
         THEN [judgment |-> JUDGMENT_WINDOWS[k].judgment, timeDiff |-> signedDiff,
               score |-> JUDGMENT_WINDOWS[k].score]
         ELSE WalkWindows(k + 1, absDiff, signedDiff)

\* judge with strict window comparisons (< instead of <=)
JudgmentSystem_judge_strict(note, currentTime) ==
    LET timeDiff == Abs(currentTime - note.time)
        hits == { k \in 1..Len(JUDGMENT_WINDOWS) : timeDiff < JUDGMENT_WINDOWS[k].window }
    IN  IF hits # {}
        THEN LET k == CHOOSE x \in hits : \A y \in hits : x <= y
             IN  [judgment |-> JUDGMENT_WINDOWS[k].judgment,
                  timeDiff |-> currentTime - note.time,
                  score |-> JUDGMENT_WINDOWS[k].score]
        ELSE IF timeDiff < MISS_WINDOW
             THEN [judgment |-> "BAD", timeDiff |-> currentTime - note.time, score |-> 200]
             ELSE NULL

\* judge without the fallback: nothing past the BAD window is graded
JudgmentSystem_judge_noFallback(note, currentTime) ==
    WalkWindows(1, Abs(currentTime - note.time), currentTime - note.time)

\* JudgmentSystem.judge(note, currentTime)
JudgmentSystem_judge(note, currentTime) ==
    LET timeDiff == Abs(currentTime - note.time)
        found == WalkWindows(1, timeDiff, currentTime - note.time)
    IN  IF found # NULL THEN found
        ELSE IF timeDiff <= MISS_WINDOW
             THEN [judgment |-> "BAD", timeDiff |-> currentTime - note.time, score |-> 200]
             ELSE NULL

RECURSIVE FindFrom_lastOnTie(_, _, _, _, _, _)
\* the for-loop of findHittableNote with "timeDiff <= closestDiff"
FindFrom_lastOnTie(ns, k, lane, currentTime, closest, closestDiff) ==
    IF k > Len(ns) THEN closest
    ELSE IF ns[k].lane # lane \/ Note_isProcessed(ns[k])
         THEN FindFrom_lastOnTie(ns, k + 1, lane, currentTime, closest, closestDiff)
         ELSE LET timeDiff == Abs(currentTime - ns[k].time)
              IN  IF timeDiff <= MISS_WINDOW /\ (closestDiff = -1 \/ timeDiff <= closestDiff)
                  THEN FindFrom_lastOnTie(ns, k + 1, lane, currentTime, k, timeDiff)
                  ELSE FindFrom_lastOnTie(ns, k + 1, lane, currentTime, closest, closestDiff)

RECURSIVE FindFrom(_, _, _, _, _, _)
\* the for-loop of findHittableNote from index k on; closest = 0 is null,
\* closestDiff = -1 is Infinity
FindFrom(ns, k, lane, currentTime, closest, closestDiff) ==
    IF k > Len(ns) THEN closest
    ELSE IF ns[k].lane # lane \/ Note_isProcessed(ns[k])
         THEN FindFrom(ns, k + 1, lane, currentTime, closest, closestDiff)
         ELSE LET timeDiff == Abs(currentTime - ns[k].time)
              IN  IF timeDiff <= MISS_WINDOW /\ (closestDiff = -1 \/ timeDiff < closestDiff)
                  THEN FindFrom(ns, k + 1, lane, currentTime, k, timeDiff)
                  ELSE FindFrom(ns, k + 1, lane, currentTime, closest, closestDiff)

\* JudgmentSystem.findHittableNote(notes, lane, currentTime): index of the note, 0 = null
JudgmentSystem_findHittableNote(ns, lane, currentTime) ==
    FindFrom(ns, 1, lane, currentTime, 0, -1)

\* the test of checkMissedNotes without "if (note.isProcessed) continue"
MissedBySweep_evenProcessed(n, currentTime) ==
    /\ ~(n.type = "hold" /\ n.isHit)
    /\ currentTime - n.time > MISS_WINDOW

\* the test of checkMissedNotes with ">=" in place of ">"
MissedBySweep_inclusive(n, currentTime) ==
    /\ ~Note_isProcessed(n)
    /\ ~(n.type = "hold" /\ n.isHit)
    /\ currentTime - n.time >= MISS_WINDOW

\* the test of checkMissedNotes for one note
MissedBySweep(n, currentTime) ==
    /\ ~Note_isProcessed(n)
    /\ ~(n.type = "hold" /\ n.isHit)
    /\ currentTime - n.time > MISS_WINDOW

\* JudgmentSystem.checkMissedNotes(notes, currentTime): the notes afterwards and
\* the indices of the returned notes
JudgmentSystem_checkMissedNotes(ns, currentTime) ==
    [ notes  |-> [i \in DOMAIN ns |->
                    IF MissedBySweep(ns[i], currentTime) THEN Note_miss(ns[i]) ELSE ns[i]],
      missed |-> { i \in DOMAIN ns : MissedBySweep(ns[i], currentTime) } ]

\* JudgmentSystem.isHit(judgment)
JudgmentSystem_isHit(judgment) == judgment \in {"PERFECT", "GREAT", "GOOD"}

----------------------------------------------------------------------------
(* ScoreSystem *)

\* a fresh ScoreSystem / ScoreSystem.reset()
ScoreSystem_reset ==
    [ score |-> 0, combo |-> 0, maxCombo |-> 0,
      stats |-> [perfect |-> 0, great |-> 0, good |-> 0, bad |-> 0, miss |-> 0] ]

\* updateStats counting the judgment twice
ScoreSystem_updateStats_twice(st, judgment) ==
    CASE judgment = "PERFECT" -> [st EXCEPT !.perfect = @ + 2]
      [] judgment = "GREAT"   -> [st EXCEPT !.great = @ + 2]
      [] judgment = "GOOD"    -> [st EXCEPT !.good = @ + 2]
      [] judgment = "BAD"     -> [st EXCEPT !.bad = @ + 2]
      [] judgment = "MISS"    -> [st EXCEPT !.miss = @ + 2]
      [] OTHER                -> st

\* ScoreSystem.updateStats(judgment)
ScoreSystem_updateStats(st, judgment) ==
    CASE judgment = "PERFECT" -> [st EXCEPT !.perfect = @ + 1]
      [] judgment = "GREAT"   -> [st EXCEPT !.great = @ + 1]
      [] judgment = "GOOD"    -> [st EXCEPT !.good = @ + 1]
      [] judgment = "BAD"     -> [st EXCEPT !.bad = @ + 1]
      [] judgment = "MISS"    -> [st EXCEPT !.miss = @ + 1]
      [] OTHER                -> st

\* getComboMultiplier without the step at 100
ScoreSystem_getComboMultiplier_noTopStep(combo) ==
    IF combo >= 50 THEN 150
    ELSE IF combo >= 25 THEN 125
    ELSE IF combo >= 10 THEN 110
    ELSE 100

\* the multiplier taken from the combo before its increment
ScoreSystem_getComboMultiplier_late(combo) ==
    IF combo - 1 >= 100 THEN 200
    ELSE IF combo - 1 >= 50 THEN 150
    ELSE IF combo - 1 >= 25 THEN 125
    ELSE IF combo - 1 >= 10 THEN 110
    ELSE 100

\* ScoreSystem.getComboMultiplier(), in percent (1.1 = 110)
ScoreSystem_getComboMultiplier(combo) ==
    IF combo >= 100 THEN 200
    ELSE IF combo >= 50 THEN 150
    ELSE IF combo >= 25 THEN 125
    ELSE IF combo >= 10 THEN 110
    ELSE 100

\* addJudgment treating every judgment as a hit: a BAD keeps the combo
ScoreSystem_addJudgment_badKeeps(s, result) ==
    LET st == ScoreSystem_updateStats(s.stats, result.judgment)
        combo == s.combo + 1
        maxCombo == IF combo > s.maxCombo THEN combo ELSE s.maxCombo
    IN  [ score |-> s.score
                     + ((result.score * ScoreSystem_getComboMultiplier(combo)) \div 100),
          combo |-> combo, maxCombo |-> maxCombo, stats |-> st ]

\* ScoreSystem.addJudgment(result)
ScoreSystem_addJudgment(s, result) ==
    LET st == ScoreSystem_updateStats(s.stats, result.judgment)
    IN  IF JudgmentSystem_isHit(result.judgment)
        THEN LET combo == s.combo + 1
                 maxCombo == IF combo > s.maxCombo THEN combo ELSE s.maxCombo
             IN  [ score |-> s.score
                              + ((result.score * ScoreSystem_getComboMultiplier(combo)) \div 100),
                   combo |-> combo, maxCombo |-> maxCombo, stats |-> st ]
        ELSE [ score |-> s.score + result.score, combo |-> 0,
               maxCombo |-> s.maxCombo, stats |-> st ]

\* miss() without the combo reset
ScoreSystem_miss_keepCombo(s) == [s EXCEPT !.stats.miss = @ + 1]

\* ScoreSystem.miss()
ScoreSystem_miss(s) == [s EXCEPT !.stats.miss = @ + 1, !.combo = 0]

\* the number of judgments recorded in the stats
TotalJudged(s) ==
    s.stats.perfect + s.stats.great + s.stats.good + s.stats.bad + s.stats.miss

\* getAccuracy returning 0 when nothing has been judged
ScoreSystem_getAccuracy_zeroWhenEmpty(s) ==
    IF TotalJudged(s) = 0 THEN [num |-> 0, den |-> 1]
    ELSE [ num |-> s.stats.perfect * 100 + s.stats.great * 80 + s.stats.good * 50
                   + s.stats.bad * 20 + s.stats.miss * 0,
           den |-> TotalJudged(s) ]

\* ScoreSystem.getAccuracy(): the quotient weighted / total as the fraction
\* num / den (100 is 100 / 1)
ScoreSystem_getAccuracy(s) ==
    IF TotalJudged(s) = 0 THEN [num |-> 100, den |-> 1]
    ELSE [ num |-> s.stats.perfect * 100 + s.stats.great * 80 + s.stats.good * 50
                   + s.stats.bad * 20 + s.stats.miss * 0,
           den |-> TotalJudged(s) ]

\* getGrade with strict comparisons (> instead of >=)
ScoreSystem_getGrade_strict(s) ==
    LET accuracy == ScoreSystem_getAccuracy(s)
    IN  IF accuracy.num > 95 * accuracy.den THEN "S"
        ELSE IF accuracy.num > 90 * accuracy.den THEN "A"
        ELSE IF accuracy.num > 80 * accuracy.den THEN "B"
        ELSE IF accuracy.num > 70 * accuracy.den THEN "C"
        ELSE IF accuracy.num > 60 * accuracy.den THEN "D"
        ELSE "F"

\* ScoreSystem.getGrade(): accuracy >= x is num >= x * den
ScoreSystem_getGrade(s) ==
    LET accuracy == ScoreSystem_getAccuracy(s)
    IN  IF accuracy.num >= 95 * accuracy.den THEN "S"
        ELSE IF accuracy.num >= 90 * accuracy.den THEN "A"
        ELSE IF accuracy.num >= 80 * accuracy.den THEN "B"
        ELSE IF accuracy.num >= 70 * accuracy.den THEN "C"
        ELSE IF accuracy.num >= 60 * accuracy.den THEN "D"
        ELSE "F"

RECURSIVE MissTimes(_, _)
\* ScoreSystem.miss() called k times in a row
MissTimes(s, k) == IF k = 0 THEN s ELSE MissTimes(ScoreSystem_miss(s), k - 1)

RECURSIVE AddTimes(_, _, _)
\* ScoreSystem.addJudgment(result) called k times in a row (a combo is never
\* negative: the test on it has s evaluated before the next call is made)
AddTimes(s, result, k) ==
    IF k = 0 \/ s.combo < 0 THEN s
    ELSE AddTimes(ScoreSystem_addJudgment(s, result), result, k - 1)

----------------------------------------------------------------------------
(* Clock *)

\* a fresh Clock / Clock.reset()
Clock_reset == [startTime |-> 0, pauseTime |-> 0, isRunning |-> FALSE, offset |-> 0]

\* Clock.start that forgets the time already played when resuming
Clock_start_fresh(c, offset, t) ==
    IF c.isRunning THEN c
    ELSE [startTime |-> t, pauseTime |-> 0, isRunning |-> TRUE, offset |-> offset]

\* Clock.start(offset) at performance.now() = t
Clock_start(c, offset, t) ==
    IF c.isRunning THEN c
    ELSE [ startTime |-> IF c.pauseTime > 0 THEN t - (c.pauseTime - c.startTime) ELSE t,
           pauseTime |-> 0, isRunning |-> TRUE, offset |-> offset ]

\* Clock.pause() at performance.now() = t
Clock_pause(c, t) ==
    IF ~c.isRunning THEN c ELSE [c EXCEPT !.pauseTime = t, !.isRunning = FALSE]

\* Clock.currentTime that keeps counting wall time on a paused clock
Clock_currentTime_live(c, t) ==
    IF ~c.isRunning
    THEN IF c.pauseTime > 0 THEN (t - c.startTime) + c.offset ELSE c.offset
    ELSE (t - c.startTime) + c.offset

\* Clock.currentTime at performance.now() = t
Clock_currentTime(c, t) ==
    IF ~c.isRunning
    THEN IF c.pauseTime > 0 THEN (c.pauseTime - c.startTime) + c.offset ELSE c.offset
    ELSE (t - c.startTime) + c.offset

----------------------------------------------------------------------------
(* AudioManager: operations on the pair (AudioManager, its Clock) *)

\* a fresh AudioManager.  hasContext: audioContext and gainNode are set (init ran);
\* hasBuffer: audioBuffer is set; hasSource: sourceNode is not null;
\* endedPending: a created source node has not dispatched its 'ended' event yet
NewAudio ==
    [ isPlaying |-> FALSE, hasContext |-> FALSE, hasBuffer |-> FALSE, hasSource |-> FALSE,
      endedPending |-> FALSE, startOffset |-> 0, pauseTime |-> 0 ]

\* AudioManager.stop()
AudioManager_stop(a, c) ==
    [ audio |-> [a EXCEPT !.hasSource = FALSE, !.isPlaying = FALSE, !.pauseTime = 0],
      clock |-> Clock_reset ]

\* AudioManager.play(offset) at performance.now() = t
AudioManager_play(a, c, offset, t) ==
    LET s  == IF a.isPlaying THEN AudioManager_stop(a, c) ELSE [audio |-> a, clock |-> c]
        a1 == [s.audio EXCEPT !.startOffset = offset, !.isPlaying = TRUE]
        c1 == Clock_start(s.clock, offset + a1.pauseTime, t)
    IN  IF a1.hasContext /\ a1.hasBuffer
        THEN [audio |-> [a1 EXCEPT !.hasSource = TRUE, !.endedPending = TRUE], clock |-> c1]
        ELSE [audio |-> a1, clock |-> c1]

\* AudioManager.pause() at performance.now() = t
AudioManager_pause(a, c, t) ==
    IF ~a.isPlaying \/ ~a.hasSource THEN [audio |-> a, clock |-> c]
    ELSE [ audio |-> [a EXCEPT !.pauseTime = Clock_currentTime(c, t) - a.startOffset,
                               !.hasSource = FALSE, !.isPlaying = FALSE],
           clock |-> Clock_pause(c, t) ]

\* sourceNode.onended
AudioManager_onended(a) == IF a.isPlaying THEN [a EXCEPT !.isPlaying = FALSE] ELSE a

----------------------------------------------------------------------------
(* Game: the handlers as functions of the session record                   *)
(*   w = [kind, state, notes, holdingNotes, score, hist, ct]               *)
(* where ct is audioManager.currentTime at the moment the handler runs.    *)

Lanes == 0..(LANE_COUNT - 1)

\* an empty Game.holdingNotes map
NoHolds == [l \in Lanes |-> 0]

\* Game.update: the time after which the song has ended
LastNoteTime(ns) ==
    IF Len(ns) = 0 THEN 0
    ELSE LET ends == { IF ns[i].type = "hold" THEN ns[i].endTime ELSE ns[i].time :
                       i \in DOMAIN ns }
         IN  CHOOSE m \in ends : \A e \in ends : m >= e

\* update without "this.holdingNotes.delete(lane)" for a completed hold
Game_update_keepTracking(w) ==
    IF w.state # "playing" THEN [w |-> w, stop |-> FALSE]
    ELSE
    LET ns1  == [i \in DOMAIN w.notes |-> Note_updatePosition(w.notes[i], w.ct)]
        done == { l \in Lanes : w.holdingNotes[l] # 0 /\ ns1[w.holdingNotes[l]].holdCompleted }
        sc1  == AddTimes(w.score, [judgment |-> "PERFECT", timeDiff |-> 0, score |-> 1000],
                         Cardinality(done))
        hn1  == w.holdingNotes
        cm   == JudgmentSystem_checkMissedNotes(ns1, w.ct)
        counted == { i \in cm.missed :
                       ~(cm.notes[i].type = "hold" /\ hn1[cm.notes[i].lane] = i) }
        sc2  == MissTimes(sc1, Cardinality(counted))
        ended == w.ct > LastNoteTime(cm.notes) + SONG_END_DELAY
        h1   == [w.hist EXCEPT
                   !.missedAt = [i \in DOMAIN @ |->
                                   IF cm.notes[i].isMissed /\ ~w.notes[i].isMissed
                                   THEN w.ct ELSE @[i]],
                   !.sweepMiss = [i \in DOMAIN @ |-> IF i \in counted THEN @[i] + 1 ELSE @[i]],
                   !.completed = [i \in DOMAIN @ |->
                                    IF \E l \in done : w.holdingNotes[l] = i
                                    THEN @[i] + 1 ELSE @[i]]]
    IN  [ w |-> [w EXCEPT !.notes = cm.notes, !.holdingNotes = hn1, !.score = sc2,
                          !.hist = h1,
                          !.state = IF ended THEN "ended" ELSE "playing"],
          stop |-> ended ]

\* Game.update(dt): the session afterwards, and whether onSongEnd ran (which
\* calls gameLoop.stop())
Game_update(w) ==
    IF w.state # "playing" THEN [w |-> w, stop |-> FALSE]
    ELSE
    LET ns1  == [i \in DOMAIN w.notes |-> Note_updatePosition(w.notes[i], w.ct)]
        done == { l \in Lanes : w.holdingNotes[l] # 0 /\ ns1[w.holdingNotes[l]].holdCompleted }
        sc1  == AddTimes(w.score, [judgment |-> "PERFECT", timeDiff |-> 0, score |-> 1000],
                         Cardinality(done))
        hn1  == [l \in Lanes |-> IF l \in done THEN 0 ELSE w.holdingNotes[l]]
        cm   == JudgmentSystem_checkMissedNotes(ns1, w.ct)
        counted == { i \in cm.missed :
                       ~(cm.notes[i].type = "hold" /\ hn1[cm.notes[i].lane] = i) }
        sc2  == MissTimes(sc1, Cardinality(counted))
        ended == w.ct > LastNoteTime(cm.notes) + SONG_END_DELAY
        h1   == [w.hist EXCEPT
                   !.missedAt = [i \in DOMAIN @ |->
                                   IF cm.notes[i].isMissed /\ ~w.notes[i].isMissed
                                   THEN w.ct ELSE @[i]],
                   !.sweepMiss = [i \in DOMAIN @ |-> IF i \in counted THEN @[i] + 1 ELSE @[i]],
                   !.completed = [i \in DOMAIN @ |->
                                    IF \E l \in done : w.holdingNotes[l] = i
                                    THEN @[i] + 1 ELSE @[i]]]
    IN  [ w |-> [w EXCEPT !.notes = cm.notes, !.holdingNotes = hn1, !.score = sc2,
                          !.hist = h1,
                          !.state = IF ended THEN "ended" ELSE "playing"],
          stop |-> ended ]

\* Game.render(interpolation): draws, changes nothing
Game_render(w) == [w |-> w, stop |-> FALSE]

\* Game.onKeyDown(lane)
Game_onKeyDown(w, lane) ==
    IF w.state # "playing" THEN w
    ELSE LET k == JudgmentSystem_findHittableNote(w.notes, lane, w.ct)
         IN  IF k = 0 THEN w
             ELSE LET result == JudgmentSystem_judge(w.notes[k], w.ct)
                  IN  IF result = NULL THEN w
                      ELSE [w EXCEPT
                              !.notes[k] = Note_hit(@),
                              !.score = ScoreSystem_addJudgment(@, result),
                              !.holdingNotes = IF w.notes[k].type = "hold"
                                               THEN [@ EXCEPT ![lane] = k] ELSE @,
                              !.hist.keyJudged[k] = @ + 1]

\* onKeyUp without "if (this._state !== 'playing') return"
Game_onKeyUp_anyState(w, lane) ==
    LET k == w.holdingNotes[lane]
    IN  IF k = 0 THEN w
        ELSE LET rel == Note_release(w.notes[k], w.ct)
             IN  [w EXCEPT
                    !.notes[k] = rel.note,
                    !.score = IF rel.ok
                              THEN ScoreSystem_addJudgment(@,
                                     [judgment |-> "PERFECT", timeDiff |-> 0, score |-> 500])
                              ELSE ScoreSystem_miss(@),
                    !.holdingNotes[lane] = 0,
                    !.hist.released[k] = IF rel.ok \/ ~w.notes[k].isHolding
                                         THEN @ ELSE @ + 1]

\* onKeyUp rewarding a successful release like a natural completion
Game_onKeyUp_fullReward(w, lane) ==
    IF w.state # "playing" THEN w
    ELSE LET k == w.holdingNotes[lane]
         IN  IF k = 0 THEN w
             ELSE LET rel == Note_release(w.notes[k], w.ct)
                  IN  [w EXCEPT
                         !.notes[k] = rel.note,
                         !.score = IF rel.ok
                                   THEN ScoreSystem_addJudgment(@,
                                          [judgment |-> "PERFECT", timeDiff |-> 0, score |-> 1000])
                                   ELSE ScoreSystem_miss(@),
                         !.holdingNotes[lane] = 0]

\* Game.onKeyUp(lane)
Game_onKeyUp(w, lane) ==
    IF w.state # "playing" THEN w
    ELSE LET k == w.holdingNotes[lane]
         IN  IF k = 0 THEN w
             ELSE LET rel == Note_release(w.notes[k], w.ct)
                  IN  [w EXCEPT
                         !.notes[k] = rel.note,
                         !.score = IF rel.ok
                                   THEN ScoreSystem_addJudgment(@,
                                          [judgment |-> "PERFECT", timeDiff |-> 0, score |-> 500])
                                   ELSE ScoreSystem_miss(@),
                         !.holdingNotes[lane] = 0,
                         !.hist.released[k] = IF rel.ok \/ ~w.notes[k].isHolding
                                              THEN @ ELSE @ + 1]

----------------------------------------------------------------------------
(* GameLoop.  Its two callbacks act on a session record w: the Game's      *)
(* (w.kind = "game"), or a stub that counts its invocations and calls      *)
(* stop() in the w.stopAt-th one (w.kind = "stub").                        *)

\* a fresh GameLoop
NewLoop == [isRunning |-> FALSE, lastTime |-> 0, accumulator |-> 0, animationFrameId |-> 0]

\* the onUpdate callback
OnUpdate(w) ==
    IF w.kind = "game" THEN Game_update(w)
    ELSE [w |-> [w EXCEPT !.calls = @ + 1], stop |-> (w.calls + 1 = w.stopAt)]

\* the onRender callback
OnRender(w) ==
    IF w.kind = "game" THEN Game_render(w)
    ELSE [w |-> [w EXCEPT !.calls = @ + 1], stop |-> (w.calls + 1 = w.stopAt)]

\* requestAnimationFrame: an id no queued frame has
NextFrameId(fr) == CHOOSE i \in 1..(Cardinality(fr) + 1) : i \notin fr

\* GameLoop.stop(): cancelAnimationFrame removes the frame from the host's queue
GameLoop_stop(l, fr) ==
    [ loop   |-> [l EXCEPT !.isRunning = FALSE, !.animationFrameId = 0],
      frames |-> IF l.animationFrameId # 0 THEN fr \ {l.animationFrameId} ELSE fr ]

\* the frame time left unclamped
ClampFrameTime_none(frameTime) == frameTime

\* GameLoop.loop: "if (frameTime > maxAccumulator) frameTime = maxAccumulator"
ClampFrameTime(frameTime) ==
    IF frameTime > FIXED_TIMESTEP * MAX_FRAME_STEPS
    THEN FIXED_TIMESTEP * MAX_FRAME_STEPS ELSE frameTime

\* one turn of the while loop of GameLoop.loop, given what the callback did:
\* a stop() it called takes effect, then "accumulator -= timestep"
\* r = [loop, frames, w, n, dts, stopCalled, afterStop]
AfterUpdate(r, cb) ==
    [ loop   |-> IF cb.stop
                 THEN [GameLoop_stop(r.loop, r.frames).loop
                         EXCEPT !.accumulator = @ - FIXED_TIMESTEP]
                 ELSE [r.loop EXCEPT !.accumulator = @ - FIXED_TIMESTEP],
      frames |-> IF cb.stop THEN GameLoop_stop(r.loop, r.frames).frames ELSE r.frames,
      w      |-> cb.w,
      n      |-> r.n + 1,
      dts    |-> r.dts \cup {FIXED_TIMESTEP},
      stopCalled |-> r.stopCalled \/ cb.stop,
      afterStop  |-> r.afterStop + (IF r.stopCalled THEN 1 ELSE 0) ]

\* the while loop of GameLoop.loop as an "if": at most one update in a frame
RunUpdates_once(r) ==
    IF r.loop.accumulator < FIXED_TIMESTEP THEN r
    ELSE AfterUpdate(r, OnUpdate(r.w))

RECURSIVE RunUpdates(_)
\* GameLoop.loop: "while (accumulator >= timestep) { onUpdate(timestep); ... }"
RunUpdates(r) ==
    IF r.loop.accumulator < FIXED_TIMESTEP THEN r
    ELSE RunUpdates(AfterUpdate(r, OnUpdate(r.w)))

\* what a call of loop() that returned at its guard did
NoFrame == [ ran |-> FALSE, updates |-> 0, dts |-> {}, renders |-> 0, interpolation |-> 0,
             stopCalled |-> FALSE, afterStop |-> 0, requeued |-> FALSE ]

\* the end of GameLoop.loop, given what onRender did: a stop() it called takes
\* effect, then "animationFrameId = requestAnimationFrame(loop)"
AfterRender(r, rend) ==
    [ loop   |-> IF rend.stop
                 THEN [GameLoop_stop(r.loop, r.frames).loop
                         EXCEPT !.animationFrameId =
                                   NextFrameId(GameLoop_stop(r.loop, r.frames).frames)]
                 ELSE [r.loop EXCEPT !.animationFrameId = NextFrameId(r.frames)],
      frames |-> IF rend.stop
                 THEN GameLoop_stop(r.loop, r.frames).frames
                        \cup {NextFrameId(GameLoop_stop(r.loop, r.frames).frames)}
                 ELSE r.frames \cup {NextFrameId(r.frames)},
      w      |-> rend.w,
      log    |-> [ ran |-> TRUE, updates |-> r.n, dts |-> r.dts, renders |-> 1,
                   interpolation |-> r.loop.accumulator,
                   stopCalled |-> r.stopCalled \/ rend.stop,
                   afterStop |-> r.afterStop + (IF r.stopCalled THEN 1 ELSE 0),
                   requeued |-> TRUE ] ]

\* GameLoop.loop after its updates: "onRender(accumulator / timestep)"
RenderFrame(r) == AfterRender(r, OnRender(r.w))

\* GameLoop.loop() at performance.now() = t: the loop, the host's queue and the
\* session afterwards, and a log of the callbacks it invoked
GameLoop_loop(l, fr, t, w) ==
    IF ~l.isRunning THEN [loop |-> l, frames |-> fr, w |-> w, log |-> NoFrame]
    ELSE RenderFrame(RunUpdates(
           [ loop |-> [l EXCEPT !.lastTime = t,
                                !.accumulator = @ + ClampFrameTime(Thirds(t - l.lastTime))],
             frames |-> fr, w |-> w, n |-> 0, dts |-> {},
             stopCalled |-> FALSE, afterStop |-> 0 ]))

\* GameLoop.start() at performance.now() = t
GameLoop_start(l, fr, t, w) ==
    IF l.isRunning THEN [loop |-> l, frames |-> fr, w |-> w, log |-> NoFrame]
    ELSE GameLoop_loop([l EXCEPT !.isRunning = TRUE, !.lastTime = t, !.accumulator = 0],
                       fr, t, w)

----------------------------------------------------------------------------
(* Initial values of the components *)

\* a fresh InputManager; phys is the set of keys physically held down
NewInput == [keyState |-> {}, laneState |-> {}, phys |-> {}, listening |-> FALSE]

\* a freshly constructed Game
NewGame ==
    [ state |-> "loading", chart |-> 0, audioInitialized |-> FALSE,
      initPending |-> FALSE ]

\* history of a session over n notes
NewHist(n) ==
    [ keyJudged |-> [i \in 1..n |-> 0], sweepMiss |-> [i \in 1..n |-> 0],
      completed |-> [i \in 1..n |-> 0], missedAt |-> [i \in 1..n |-> -1],
      released |-> [i \in 1..n |-> 0],
      held |-> -1, heldOffset |-> 0, heldAt |-> 0, heldMode |-> "none", pauses |-> 0 ]

NoOp == [op |-> "none"]

\* every component as constructed
Constructed ==
    /\ clock = Clock_reset
    /\ audio = NewAudio
    /\ loop = NewLoop
    /\ frames = {}
    /\ input = NewInput
    /\ game = NewGame
    /\ holdingNotes = NoHolds
    /\ score = ScoreSystem_reset

----------------------------------------------------------------------------
(* SpecJudge: JudgmentSystem.judge applied to one note at every time within *)
(* MaxDiff of the note's time.                                              *)

\* bound: how far from the note's time judge is called
MaxDiff == 205

JudgeNotes ==
    { [type |-> "tap",  time |-> 1000, lane |-> 0, duration |-> 0],
      [type |-> "hold", time |-> 250,  lane |-> 1, duration |-> 400] }

InitJudge ==
    /\ Constructed
    /\ now = 0
    /\ notes \in { <<NewNote(d)>> : d \in JudgeNotes }
    /\ last = NoOp
    /\ hist = NewHist(1)

\* judge(notes[1], t)
JudgeCall(t) ==
    /\ last' = [op |-> "judge", t |-> t, result |-> JudgmentSystem_judge(notes[1], t)]
    /\ UNCHANGED <<now, clock, audio, loop, frames, input, game, notes, holdingNotes,
                   score, hist>>

NextJudge ==
    \E t \in (notes[1].time - MaxDiff)..(notes[1].time + MaxDiff) : JudgeCall(t)

SpecJudge == InitJudge /\ [][NextJudge]_vars

\* the grade and points the windows of section 4.4 give a distance a >= 0
GradeOf(a) ==
    IF a <= 25 THEN <<"PERFECT", 1000>>
    ELSE IF a <= 50 THEN <<"GREAT", 800>>
    ELSE IF a <= 100 THEN <<"GOOD", 500>>
    ELSE IF a <= 150 THEN <<"BAD", 200>>
    ELSE IF a <= 200 THEN <<"BAD", 200>>
    ELSE <<"NONE", 0>>

\* C1: judge(note, t) grades diff = t - note.time by the first window it fits,
\* boundaries inclusive: |diff| <= 25 PERFECT/1000, <= 50 GREAT/800, <= 100
\* GOOD/500, <= 150 BAD/200, <= 200 the fallback BAD/200, beyond 200 no result;
\* every result carries the signed diff.
C1_JudgeByFirstWindow ==
    last.op = "judge" =>
        LET diff == last.t - notes[1].time
            g    == GradeOf(Abs(diff))
        IN  IF Abs(diff) > 200 THEN last.result = NULL
            ELSE /\ last.result.judgment = g[1]
                 /\ last.result.score = g[2]
                 /\ last.result.timeDiff = diff
                 /\ (last.t < notes[1].time => last.result.timeDiff < 0)

\* C1 witness: an early press 175 ms before the note took the fallback
C1_Witness ==
    /\ last.op = "judge"
    /\ last.t - notes[1].time = -175
    /\ last.result = [judgment |-> "BAD", timeDiff |-> -175, score |-> 200]

----------------------------------------------------------------------------
(* SpecNote: one Note driven through its four transition operations.  The   *)
(* times passed to it are successive readings of a clock that does not run  *)
(* backwards; here "now" is that game time.                                 *)

\* the game times at which the note's operations are called
NoteInstants == <<0, 799, 1000, 1200, 1201, 2500, 2799, 2800, 2850, 3000, 3100, 3300>>

\* bound: how many of NoteInstants are used
NumNoteInstants == 10

SpecNoteData ==
    { [type |-> "tap",  time |-> 1000, lane |-> 0, duration |-> 0],
      [type |-> "hold", time |-> 1000, lane |-> 0, duration |-> 2000] }

InitNote ==
    /\ Constructed
    /\ now = NoteInstants[1]
    /\ notes \in { <<NewNote(d)>> : d \in SpecNoteData }
    /\ last = NoOp
    /\ hist = NewHist(1)

NoteFrame == <<clock, audio, loop, frames, input, game, holdingNotes, score, hist>>

\* game time advances to a later instant
NoteAdvance ==
    /\ \E k \in 1..NumNoteInstants :
          /\ k <= Len(NoteInstants)
          /\ NoteInstants[k] > now
          /\ now' = NoteInstants[k]
    /\ last' = NoOp
    /\ UNCHANGED <<notes>>
    /\ UNCHANGED NoteFrame

\* note.updatePosition(now)
NoteUpdatePosition ==
    /\ notes' = <<Note_updatePosition(notes[1], now)>>
    /\ last' = [op |-> "updatePosition", t |-> now, before |-> notes[1]]
    /\ UNCHANGED <<now>>
    /\ UNCHANGED NoteFrame

\* note.hit()
NoteHit ==
    /\ notes' = <<Note_hit(notes[1])>>
    /\ last' = [op |-> "hit", t |-> now, before |-> notes[1]]
    /\ UNCHANGED <<now>>
    /\ UNCHANGED NoteFrame

\* note.release(now)
NoteRelease ==
    /\ notes' = <<Note_release(notes[1], now).note>>
    /\ last' = [op |-> "release", t |-> now, before |-> notes[1],
                ok |-> Note_release(notes[1], now).ok]
    /\ UNCHANGED <<now>>
    /\ UNCHANGED NoteFrame

\* note.miss()
NoteMiss ==
    /\ notes' = <<Note_miss(notes[1])>>
    /\ last' = [op |-> "miss", t |-> now, before |-> notes[1]]
    /\ UNCHANGED <<now>>
    /\ UNCHANGED NoteFrame

NextNote ==
    \/ NoteAdvance
    \/ NoteUpdatePosition
    \/ NoteHit
    \/ NoteRelease
    \/ NoteMiss

SpecNote == InitNote /\ [][NextNote]_vars

\* C10: release(t) returns success iff the note is a hold that is holding and
\* endTime - t <= 200, and then holdCompleted is true; with endTime - t > 200
\* it returns failure and holdCompleted is false; in both cases holding and
\* active are cleared; on a tap or a note that is not holding it returns
\* failure and changes no flag.
C10_Release ==
    last.op = "release" =>
        LET b    == last.before
            a    == notes[1]
            held == b.type = "hold" /\ b.isHolding
        IN  /\ last.ok <=> (held /\ b.endTime - last.t <= 200)
            /\ (held /\ b.endTime - last.t <= 200) =>
                   (a.holdCompleted /\ ~a.isHolding /\ ~a.isActive)
            /\ (held /\ b.endTime - last.t > 200) =>
                   (~last.ok /\ ~a.holdCompleted /\ ~a.isHolding /\ ~a.isActive)
            /\ ~held => (~last.ok /\ a = b)

\* C10 witness: the hold grabbed and released at 2850, 150 ms before its end
C10_Witness ==
    /\ last.op = "release"
    /\ last.t = 2850
    /\ last.before.isHolding
    /\ last.ok
    /\ notes[1].holdCompleted

\* C10 witness of the premature case: released at 2500, 500 ms before its end
C10_WitnessEarly ==
    /\ last.op = "release"
    /\ last.t = 2500
    /\ last.before.isHolding
    /\ ~last.ok
    /\ ~notes[1].holdCompleted

----------------------------------------------------------------------------
(* Wall-clock time *)

\* the readings performance.now() takes, ms (positive: the page has been open)
Instants == <<1, 402, 452, 2700, 251, 100, 301, 651, 2652, 51>>

\* bound: how many of Instants are used
NumInstants == 4

\* performance.now() moves on to a later reading
Advance ==
    /\ \E k \in 1..NumInstants :
          /\ k <= Len(Instants)
          /\ Instants[k] > now
          /\ now' = Instants[k]
    /\ last' = NoOp
    /\ UNCHANGED <<clock, audio, loop, frames, input, game, notes, holdingNotes, score, hist>>

----------------------------------------------------------------------------
(* SpecClock: one Clock under start(offset), pause(), reset() and the       *)
(* passing of time.  hist.held is currentTime as read right after the last  *)
(* pause() that stopped the clock, -1 when there is none.                   *)

\* the offsets start() is called with
ClockOffsets == {0, 40}

InitClock ==
    /\ Constructed
    /\ now = Instants[1]
    /\ notes = << >>
    /\ last = NoOp
    /\ hist = NewHist(0)

ClockFrame == <<now, audio, loop, frames, input, game, notes, holdingNotes, score>>

\* clock.start(o)
ClockStartCall(o) ==
    /\ clock' = Clock_start(clock, o, now)
    /\ last' = [ op |-> "start", offset |-> o,
                 resumes |-> (~clock.isRunning /\ hist.held # -1),
                 sameOffset |-> (o = hist.heldOffset),
                 held |-> hist.held, pausedFor |-> now - hist.heldAt ]
    /\ hist' = IF clock.isRunning THEN hist ELSE [hist EXCEPT !.held = -1]
    /\ UNCHANGED ClockFrame

\* clock.pause()
ClockPauseCall ==
    /\ clock' = Clock_pause(clock, now)
    /\ last' = [op |-> "pause"]
    /\ hist' = IF clock.isRunning
               THEN [hist EXCEPT !.held = Clock_currentTime(clock', now),
                                 !.heldOffset = clock.offset, !.heldAt = now]
               ELSE hist
    /\ UNCHANGED ClockFrame

\* clock.reset()
ClockResetCall ==
    /\ clock' = Clock_reset
    /\ last' = [op |-> "reset"]
    /\ hist' = [hist EXCEPT !.held = -1]
    /\ UNCHANGED ClockFrame

NextClock ==
    \/ Advance
    \/ \E o \in ClockOffsets : ClockStartCall(o)
    \/ ClockPauseCall
    \/ ClockResetCall

SpecClock == InitClock /\ [][NextClock]_vars

\* C6: start(o); time passes; pause(); v = currentTime; time passes; start(o)
\* with the same offset: currentTime read right after the resume equals v.
C6_ClockContinuity ==
    (last.op = "start" /\ last.resumes /\ last.sameOffset) =>
        Clock_currentTime(clock, now) = last.held

\* C6 witness: a clock started with offset 40 that ran, stayed paused for a
\* while and was resumed with the same offset
C6_Witness ==
    /\ last.op = "start" /\ last.resumes /\ last.sameOffset
    /\ last.offset = 40
    /\ last.held > 40
    /\ last.pausedFor > 0
    /\ clock.isRunning

----------------------------------------------------------------------------
(* SpecLoop: one GameLoop with stub callbacks, the host's frame queue and   *)
(* the passing of time.  In each call of loop() the stub calls stop() in    *)
(* its stopAt-th invocation (0: in none), the way Game.update does when the *)
(* song ends.                                                               *)

\* the readings performance.now() takes in SpecLoop, ms
LoopInstants == <<1, 6, 16, 33, 50, 67, 267, 270, 300, 320>>

\* bound: how many of LoopInstants are used
NumLoopInstants == 8

\* bound: start() is not called while this many frames are queued
MaxFrames == 2

Stub(k) == [kind |-> "stub", stopAt |-> k, calls |-> 0]

StopChoices == 0..(MAX_FRAME_STEPS + 1)

InitLoop ==
    /\ Constructed
    /\ now = LoopInstants[1]
    /\ notes = << >>
    /\ last = NoOp
    /\ hist = NewHist(0)

LoopFrame == <<clock, audio, input, game, notes, holdingNotes, score, hist>>

\* performance.now() moves on to a later reading
LoopAdvance ==
    /\ \E k \in 1..NumLoopInstants :
          /\ k <= Len(LoopInstants)
          /\ LoopInstants[k] > now
          /\ now' = LoopInstants[k]
    /\ last' = NoOp
    /\ UNCHANGED <<loop, frames>>
    /\ UNCHANGED LoopFrame

\* the loop and the queue become what a call of start() or loop() returned
LoopResult(r, op) ==
    /\ loop' = r.loop
    /\ frames' = r.frames
    /\ last' = [op |-> op, wasRunning |-> loop.isRunning,
                elapsed |-> Thirds(now - loop.lastTime),
                accBefore |-> loop.accumulator, framesBefore |-> frames, log |-> r.log]

\* gameLoop.start()
LoopStartCall(k) ==
    /\ Cardinality(frames) < MaxFrames
    /\ LoopResult(GameLoop_start(loop, frames, now, Stub(k)), "start")
    /\ UNCHANGED <<now>>
    /\ UNCHANGED LoopFrame

\* gameLoop.stop(), called outside a frame
LoopStopCall ==
    /\ LET r == GameLoop_stop(loop, frames)
       IN  /\ loop' = r.loop
           /\ frames' = r.frames
    /\ last' = [op |-> "stop", wasRunning |-> loop.isRunning, framesBefore |-> frames]
    /\ UNCHANGED <<now>>
    /\ UNCHANGED LoopFrame

\* the host runs the queued frame callback f
HostFrame(f, k) ==
    /\ f \in frames
    /\ LoopResult(GameLoop_loop(loop, frames \ {f}, now, Stub(k)), "frame")
    /\ UNCHANGED <<now>>
    /\ UNCHANGED LoopFrame

NextLoop ==
    \/ LoopAdvance
    \/ \E k \in StopChoices : LoopStartCall(k)
    \/ LoopStopCall
    \/ \E f \in frames, k \in StopChoices : HostFrame(f, k)

SpecLoop == InitLoop /\ [][NextLoop]_vars

\* C8: in every frame, whatever the elapsed time and the accumulator's
\* remainder, onUpdate is invoked between 0 and 5 times and every invocation
\* receives exactly the fixed timestep.
C8_UpdatesPerFrame ==
    last.op \in {"frame", "start"} =>
        /\ last.log.updates \in 0..5
        /\ last.log.dts \subseteq {FIXED_TIMESTEP}
        /\ (last.log.updates > 0 => last.log.dts = {FIXED_TIMESTEP})

\* C8 witness: a frame after a stall of 12 timesteps, with a remainder left
\* in the accumulator, ran exactly 5 updates
C8_Witness ==
    /\ last.op = "frame"
    /\ last.elapsed >= 10 * FIXED_TIMESTEP
    /\ last.accBefore > 0
    /\ last.log.updates = 5

\* C9: after stop() has been called, from outside a frame or from inside a
\* callback, no onUpdate or onRender invocation follows and no queued frame
\* callback runs the loop body, until start() is called again.
C9_StopEndsCallbacks ==
    /\ last.op \in {"frame", "start"} => last.log.afterStop = 0
    /\ (last.op = "frame" /\ ~last.wasRunning) => ~last.log.ran

----------------------------------------------------------------------------
(* InputManager *)

\* LAYOUT.KEY_BINDINGS
KEY_BINDINGS ==
    [ l \in Lanes |->
        CASE l = 0 -> {"KeyD", "ArrowLeft"}
          [] l = 1 -> {"KeyF", "ArrowDown"}
          [] l = 2 -> {"KeyJ", "ArrowUp"}
          [] l = 3 -> {"KeyK", "ArrowRight"} ]

\* InputManager.getLaneFromKey(code)
InputManager_getLaneFromKey(code) ==
    IF code \in KEY_BINDINGS[0] THEN 0
    ELSE IF code \in KEY_BINDINGS[1] THEN 1
    ELSE IF code \in KEY_BINDINGS[2] THEN 2
    ELSE IF code \in KEY_BINDINGS[3] THEN 3
    ELSE -1

\* handleKeyDown without the "!this.laneState[lane]" test
InputManager_handleKeyDown_noLaneTest(inp, code, repeat) ==
    IF repeat \/ InputManager_getLaneFromKey(code) = -1
    THEN [input |-> inp, lane |-> -1]
    ELSE [ input |-> [inp EXCEPT !.laneState = @ \cup {InputManager_getLaneFromKey(code)},
                                 !.keyState = @ \cup {code}],
           lane  |-> InputManager_getLaneFromKey(code) ]

\* InputManager.handleKeyDown(e): the manager afterwards and the lane passed to
\* the key-down callback (-1: the callback is not called)
InputManager_handleKeyDown(inp, code, repeat) ==
    IF repeat \/ InputManager_getLaneFromKey(code) = -1
         \/ InputManager_getLaneFromKey(code) \in inp.laneState
    THEN [input |-> inp, lane |-> -1]
    ELSE [ input |-> [inp EXCEPT !.laneState = @ \cup {InputManager_getLaneFromKey(code)},
                                 !.keyState = @ \cup {code}],
           lane  |-> InputManager_getLaneFromKey(code) ]

\* InputManager.handleKeyUp(e): the manager afterwards and the lane passed to the
\* key-up callback (-1: the callback is not called)
InputManager_handleKeyUp(inp, code) ==
    IF InputManager_getLaneFromKey(code) = -1 THEN [input |-> inp, lane |-> -1]
    ELSE IF (inp.keyState \ {code}) \cap KEY_BINDINGS[InputManager_getLaneFromKey(code)] # {}
         THEN [input |-> [inp EXCEPT !.keyState = @ \ {code}], lane |-> -1]
         ELSE [ input |-> [inp EXCEPT !.keyState = @ \ {code},
                                      !.laneState = @ \ {InputManager_getLaneFromKey(code)}],
                lane  |-> InputManager_getLaneFromKey(code) ]

----------------------------------------------------------------------------
(* Game: lifecycle operations on the record                                *)
(*   s = [game, audio, clock, loop, frames, notes, holdingNotes, score, hist] *)

\* the charts served to loadChart: SONGS[0] comes with an audio file
Charts ==
    << [ offset |-> 50, audio |-> TRUE,
         notes |-> << [type |-> "tap", time |-> 300, lane |-> 0, duration |-> 0] >> ],
       [ offset |-> 0, audio |-> FALSE,
         notes |-> << [type |-> "hold", time |-> 250, lane |-> 0, duration |-> 400] >> ] >>

\* "this.chart.notes.map(noteData => new Note(noteData))"; no chart: notes stay
ChartNotes(c, old) ==
    IF c = 0 THEN old ELSE [i \in DOMAIN Charts[c].notes |-> NewNote(Charts[c].notes[i])]

\* the per-note counters start over for newly created notes
FreshCounters(h, n) ==
    [h EXCEPT !.keyJudged = NewHist(n).keyJudged, !.sweepMiss = NewHist(n).sweepMiss,
              !.completed = NewHist(n).completed, !.missedAt = NewHist(n).missedAt,
              !.released = NewHist(n).released,
              !.held = -1, !.heldMode = "none", !.pauses = 0]

\* Game.loadChart(chartUrl, audioUrl): fetchOk, audioOk are the outcomes of the
\* two downloads.  The call is taken as one step: nothing runs between its
\* awaits, so the state 'loading' it passes through is not observed.
Game_loadChart(s, c, fetchOk, audioOk) ==
    IF ~fetchOk THEN [s EXCEPT !.game.state = "ready"]
    ELSE [s EXCEPT !.game.state = "ready",
                   !.game.chart = c,
                   !.notes = ChartNotes(c, << >>),
                   !.hist = FreshCounters(@, Len(Charts[c].notes)),
                   !.audio.hasBuffer =
                       IF Charts[c].audio /\ s.audio.hasContext /\ audioOk THEN TRUE ELSE @]

\* the session record the callbacks of s act on, at performance.now() = t
SessionOf(s, t) ==
    [ kind |-> "game", state |-> s.game.state, notes |-> s.notes,
      holdingNotes |-> s.holdingNotes, score |-> s.score, hist |-> s.hist,
      ct |-> Clock_currentTime(s.clock, t) ]

\* s after a call of gameLoop.start() / loop() that returned r
WithLoop(s, r) ==
    [s EXCEPT !.loop = r.loop, !.frames = r.frames, !.game.state = r.w.state,
              !.notes = r.w.notes, !.holdingNotes = r.w.holdingNotes,
              !.score = r.w.score, !.hist = r.w.hist]

\* s after a call of audioManager.play / pause / stop that returned r
WithAudio(s, r) == [s EXCEPT !.audio = r.audio, !.clock = r.clock]

\* Game.start() after "await this.initAudio()"
Game_startBody(s, t) ==
    LET s1 == [s EXCEPT !.game.state = "playing"]
        s2 == WithLoop(s1, GameLoop_start(s1.loop, s1.frames, t, SessionOf(s1, t)))
        offset == IF s2.game.chart = 0 THEN 0 ELSE Charts[s2.game.chart].offset
    IN  WithAudio(s2, AudioManager_play(s2.audio, s2.clock, offset, t))

\* Game.start() up to and including "await this.initAudio()": an initAudio that
\* has already been called returns at once, otherwise the call stays pending
Game_start(s, t) ==
    IF s.game.state \notin {"ready", "paused"} THEN s
    ELSE IF s.game.audioInitialized THEN Game_startBody(s, t)
    ELSE [s EXCEPT !.game.audioInitialized = TRUE, !.game.initPending = TRUE]

\* Game.pause()
Game_pause(s, t) ==
    IF s.game.state # "playing" THEN s
    ELSE WithAudio([s EXCEPT !.game.state = "paused"],
                   AudioManager_pause(s.audio, s.clock, t))

\* Game.resume()
Game_resume(s, t) ==
    IF s.game.state # "paused" THEN s
    ELSE WithAudio([s EXCEPT !.game.state = "playing"],
                   AudioManager_play(s.audio, s.clock, 0, t))

\* Game.stop()
Game_stop(s) ==
    LET l == GameLoop_stop(s.loop, s.frames)
    IN  WithAudio([s EXCEPT !.game.state = "ended", !.loop = l.loop, !.frames = l.frames],
                  AudioManager_stop(s.audio, s.clock))

\* reset() without "this.notes = this.chart.notes.map(...)"
Game_reset_staleNotes(s) ==
    LET s1 == Game_stop(s)
    IN  [s1 EXCEPT !.holdingNotes = NoHolds,
                   !.score = ScoreSystem_reset,
                   !.hist = FreshCounters(@, Len(s.notes)),
                   !.game.state = "ready"]

\* Game.reset()
Game_reset(s) ==
    LET s1 == Game_stop(s)
    IN  [s1 EXCEPT !.notes = ChartNotes(s.game.chart, @),
                   !.holdingNotes = NoHolds,
                   !.score = ScoreSystem_reset,
                   !.hist = FreshCounters(@, Len(s.notes)),
                   !.game.state = "ready"]

----------------------------------------------------------------------------
(* SpecGame: the page of main.ts.  The player clicks, presses Space, R, the *)
(* digit keys and the lane keys; the host runs queued animation frames,     *)
(* completes downloads and the audio initialisation, and ends audio         *)
(* sources; time passes.                                                    *)
(*                                                                          *)
(* While the game is paused, hist.held is audioManager.currentTime as read  *)
(* right after Game.pause(); hist.heldMode tells whether audio was loaded and playing   *)
(* at that pause ("audio"), no audio was loaded ("clockOnly"), or neither   *)
(* ("other"); hist.pauses counts the pauses of the session.                 *)

\* the lane and other keys the player uses, in order of preference
KeyCodes == <<"KeyD", "ArrowLeft", "KeyF", "KeyQ">>

\* bound: how many of KeyCodes the player uses
NumKeys == 2

\* bound: the player presses no further key once this many judgments are counted
MaxJudged == 3

\* bound: the player pauses a session at most this many times
MaxPauses == 1

UsedKeys == { KeyCodes[i] : i \in { j \in 1..NumKeys : j <= Len(KeyCodes) } }

InitGame ==
    /\ Constructed
    /\ now = Instants[1]
    /\ notes = << >>
    /\ last = NoOp
    /\ hist = NewHist(0)

\* the program's objects as one record
Sys ==
    [ game |-> game, audio |-> audio, clock |-> clock, loop |-> loop, frames |-> frames,
      notes |-> notes, holdingNotes |-> holdingNotes, score |-> score, hist |-> hist ]

\* the program's objects become s
SetSys(s) ==
    /\ game' = s.game
    /\ audio' = s.audio
    /\ clock' = s.clock
    /\ loop' = s.loop
    /\ frames' = s.frames
    /\ notes' = s.notes
    /\ holdingNotes' = s.holdingNotes
    /\ score' = s.score
    /\ hist' = s.hist

\* main.ts initGame(): game.init(), then loadSong(0)
PageInit(fetchOk) ==
    /\ ~input.listening
    /\ input' = [input EXCEPT !.listening = TRUE]
    /\ SetSys(Game_loadChart([Sys EXCEPT !.game.state = "ready"], 1, fetchOk, TRUE))
    /\ last' = [op |-> "init"]
    /\ UNCHANGED now

\* main.ts: a digit key selects a song
LoadSong(c, fetchOk, audioOk) ==
    /\ input.listening
    /\ game.state \in {"ready", "ended"}
    /\ SetSys(Game_loadChart([Sys EXCEPT !.game.state = "loading"], c, fetchOk, audioOk))
    /\ last' = [op |-> "load", ok |-> fetchOk, stateBefore |-> game.state,
                chartBefore |-> game.chart, notesBefore |-> notes]
    /\ UNCHANGED <<now, input>>

\* main.ts: Space in state 'ready' calls game.start()
SpaceStart ==
    /\ input.listening
    /\ game.state = "ready"
    /\ SetSys(Game_start(Sys, now))
    /\ last' = [op |-> "start"]
    /\ UNCHANGED <<now, input>>

\* audioManager.init() resolves and the pending Game.start() continues
AudioInitDone ==
    /\ game.initPending
    /\ SetSys(Game_startBody([Sys EXCEPT !.game.initPending = FALSE,
                                         !.audio.hasContext = TRUE], now))
    /\ last' = [op |-> "started", wasPlaying |-> (game.state = "playing"),
                ctBefore |-> Clock_currentTime(clock, now)]
    /\ UNCHANGED <<now, input>>

\* audioManager.init() rejects and the pending Game.start() is abandoned
AudioInitFail ==
    /\ game.initPending
    /\ game' = [game EXCEPT !.initPending = FALSE]
    /\ last' = [op |-> "initFailed"]
    /\ UNCHANGED <<now, clock, audio, loop, frames, input, notes, holdingNotes, score, hist>>

\* what Game.pause() leaves behind for the history
Paused(s, before) ==
    [s EXCEPT !.hist.pauses = @ + 1,
              !.hist.held = Clock_currentTime(s.clock, now),
              !.hist.heldMode = IF before.hasSource /\ before.isPlaying /\ before.hasBuffer
                                THEN "audio"
                                ELSE IF ~before.hasBuffer /\ ~before.hasSource
                                     THEN "clockOnly" ELSE "other"]

\* main.ts: Space in state 'playing' calls game.pause()
SpacePause ==
    /\ input.listening
    /\ game.state = "playing"
    /\ hist.pauses < MaxPauses
    /\ SetSys(Paused(Game_pause(Sys, now), audio))
    /\ last' = [op |-> "pause"]
    /\ UNCHANGED <<now, input>>

\* the history forgets the time held once the session has resumed
Resumed(s) == [s EXCEPT !.hist.held = -1, !.hist.heldMode = "none"]

\* main.ts: Space in state 'paused' calls game.resume()
SpaceResume ==
    /\ input.listening
    /\ game.state = "paused"
    /\ SetSys(Resumed(Game_resume(Sys, now)))
    /\ last' = [op |-> "resume", held |-> hist.held, mode |-> hist.heldMode]
    /\ UNCHANGED <<now, input>>

\* main.ts: R, or Space in state 'ended', calls game.reset()
ResetCall ==
    /\ input.listening
    /\ SetSys(Game_reset(Sys))
    /\ last' = [op |-> "reset", stateBefore |-> game.state, judgedBefore |-> TotalJudged(score),
                holdsBefore |-> (holdingNotes # NoHolds), loopBefore |-> loop.isRunning]
    /\ UNCHANGED <<now, input>>

\* the 'ended' event of an audio source is delivered
SourceEnded ==
    /\ audio.endedPending
    /\ audio' = [AudioManager_onended(audio) EXCEPT !.endedPending = FALSE]
    /\ last' = [op |-> "ended"]
    /\ UNCHANGED <<now, clock, loop, frames, input, game, notes, holdingNotes, score, hist>>

\* how many holds this step completed
NewlyCompleted ==
    Cardinality({ i \in DOMAIN notes : notes'[i].holdCompleted /\ ~notes[i].holdCompleted })

\* the host runs the queued frame callback f
GameFrame(f) ==
    /\ f \in frames
    /\ SetSys(WithLoop(Sys, GameLoop_loop(loop, frames \ {f}, now, SessionOf(Sys, now))))
    /\ last' = [op |-> "frame", completed |-> NewlyCompleted,
                perfects |-> score'.stats.perfect - score.stats.perfect,
                gained |-> score'.score - score.score,
                judged |-> TotalJudged(score') - TotalJudged(score),
                doneBefore |-> (\E i \in DOMAIN notes : notes[i].holdCompleted),
                stateBefore |-> game.state,
                ticked |-> (loop.isRunning /\ loop.accumulator
                              + ClampFrameTime(Thirds(now - loop.lastTime)) >= FIXED_TIMESTEP)]
    /\ UNCHANGED <<now, input>>

\* s after a key callback that returned the session w
WithSession(s, w) ==
    [s EXCEPT !.game.state = w.state, !.notes = w.notes, !.holdingNotes = w.holdingNotes,
              !.score = w.score, !.hist = w.hist]

\* note k of session w has reached a final outcome: tap hit, missed, hold
\* completed, or hold released early
HasFinalOutcome(w, k) ==
    \/ w.notes[k].type = "tap" /\ w.notes[k].isHit
    \/ w.notes[k].isMissed
    \/ w.notes[k].holdCompleted
    \/ w.hist.released[k] > 0

\* what a key-down callback for lane met: the note found and judge's verdict on it
KeyDownLog(w, lane) ==
    IF lane = -1 \/ w.state # "playing"
         \/ JudgmentSystem_findHittableNote(w.notes, lane, w.ct) = 0
    THEN [op |-> "keyDown", lane |-> lane, k |-> 0, diff |-> 0, result |-> NULL,
          final |-> FALSE]
    ELSE [op |-> "keyDown", lane |-> lane,
          k |-> JudgmentSystem_findHittableNote(w.notes, lane, w.ct),
          diff |-> w.ct - w.notes[JudgmentSystem_findHittableNote(w.notes, lane, w.ct)].time,
          result |-> JudgmentSystem_judge(
                        w.notes[JudgmentSystem_findHittableNote(w.notes, lane, w.ct)], w.ct),
          final |-> HasFinalOutcome(w, JudgmentSystem_findHittableNote(w.notes, lane, w.ct))]

\* the keydown listener ran and returned h
KeyDownResult(h, code) ==
    /\ input' = [h.input EXCEPT !.phys = @ \cup {code}]
    /\ SetSys(IF h.lane = -1 THEN Sys
              ELSE WithSession(Sys, Game_onKeyDown(SessionOf(Sys, now), h.lane)))
    /\ last' = KeyDownLog(SessionOf(Sys, now), h.lane)

\* the player presses a key, or the keyboard repeats a key held down
KeyDownEvent(code) ==
    /\ input.listening
    /\ TotalJudged(score) < MaxJudged
    /\ KeyDownResult(InputManager_handleKeyDown(input, code, code \in input.phys), code)
    /\ UNCHANGED now

\* the keyup listener ran and returned h
KeyUpResult(h, code) ==
    /\ input' = [h.input EXCEPT !.phys = @ \ {code}]
    /\ SetSys(IF h.lane = -1 THEN Sys
              ELSE WithSession(Sys, Game_onKeyUp(SessionOf(Sys, now), h.lane)))
    /\ last' = [op |-> "keyUp", lane |-> h.lane, completed |-> NewlyCompleted,
                perfects |-> score'.stats.perfect - score.stats.perfect,
                gained |-> score'.score - score.score,
                judged |-> TotalJudged(score') - TotalJudged(score),
                doneBefore |-> (\E i \in DOMAIN notes : notes[i].holdCompleted)]

\* the player lets go of a key
KeyUpEvent(code) ==
    /\ input.listening
    /\ code \in input.phys
    /\ KeyUpResult(InputManager_handleKeyUp(input, code), code)
    /\ UNCHANGED now

NextGame ==
    \/ Advance
    \/ \E ok \in BOOLEAN : PageInit(ok)
    \/ \E c \in DOMAIN Charts, ok \in BOOLEAN, aok \in BOOLEAN : LoadSong(c, ok, aok)
    \/ SpaceStart
    \/ AudioInitDone
    \/ AudioInitFail
    \/ SpacePause
    \/ SpaceResume
    \/ ResetCall
    \/ SourceEnded
    \/ \E f \in frames : GameFrame(f)
    \/ \E code \in UsedKeys : KeyDownEvent(code)
    \/ \E code \in UsedKeys : KeyUpEvent(code)

SpecGame == InitGame /\ [][NextGame]_vars

\* sanity of the model's holdingNotes indices: a chart is only replaced while
\* no hold is tracked
HoldsEmptyWhenIdle ==
    game.state \in {"ready", "ended", "loading"} => holdingNotes = NoHolds

----------------------------------------------------------------------------
(* SpecPlay: one playing session at a finer time scale.  It begins where    *)
(* SpecGame is after the page was initialised, chart c was loaded and the   *)
(* first Space press started the game at Instants[1] (the audio context     *)
(* exists, no audio is loaded); from there the host runs frames, the        *)
(* player presses and releases lane keys, and time passes.                  *)

\* the readings performance.now() takes in SpecPlay, ms: with either chart the
\* note's time is reached at 251
PlayInstants == <<1, 50, 51, 100, 251, 402, 451, 452, 700, 2700>>

\* bound: how many of PlayInstants are used
NumPlayInstants == 9

\* the program after initGame(), loadChart of chart c and the first start()
StartedSession(c) ==
    Game_startBody(
        [ Game_loadChart(
            [ game |-> [NewGame EXCEPT !.state = "loading", !.audioInitialized = TRUE],
              audio |-> NewAudio, clock |-> Clock_reset, loop |-> NewLoop, frames |-> {},
              notes |-> << >>, holdingNotes |-> NoHolds, score |-> ScoreSystem_reset,
              hist |-> NewHist(0) ],
            c, TRUE, TRUE)
          EXCEPT !.audio.hasContext = TRUE ],
        PlayInstants[1])

\* the variables hold the record s
IsSys(s) ==
    /\ game = s.game
    /\ audio = s.audio
    /\ clock = s.clock
    /\ loop = s.loop
    /\ frames = s.frames
    /\ notes = s.notes
    /\ holdingNotes = s.holdingNotes
    /\ score = s.score
    /\ hist = s.hist

InitPlay ==
    /\ now = PlayInstants[1]
    /\ input = [NewInput EXCEPT !.listening = TRUE]
    /\ last = NoOp
    /\ \E c \in DOMAIN Charts : IsSys(StartedSession(c))

\* performance.now() moves on to a later reading
PlayAdvance ==
    /\ \E k \in 1..NumPlayInstants :
          /\ k <= Len(PlayInstants)
          /\ PlayInstants[k] > now
          /\ now' = PlayInstants[k]
    /\ last' = NoOp
    /\ UNCHANGED <<clock, audio, loop, frames, input, game, notes, holdingNotes, score, hist>>

NextPlay ==
    \/ PlayAdvance
    \/ \E f \in frames : GameFrame(f)
    \/ \E code \in UsedKeys : KeyDownEvent(code)
    \/ \E code \in UsedKeys : KeyUpEvent(code)

SpecPlay == InitPlay /\ [][NextPlay]_vars

\* a state of SpecGame in which SpecPlay begins: the session of some chart,
\* just started at the first instant
StartedSessionReached ==
    /\ \E c \in DOMAIN Charts : IsSys(StartedSession(c))
    /\ input.listening
    /\ now = PlayInstants[1]

----------------------------------------------------------------------------
(* Properties of SpecPlay and SpecGame *)

\* C2 as stated: a key press that finds a note with a timing difference past
\* the BAD window (150 < |diff|, e.g. diff = 151) gets no grade from judge.
C2_NoGradePastBadWindow ==
    (last.op = "keyDown" /\ last.k # 0 /\ Abs(last.diff) > 150) => last.result = NULL

\* C2, amended: a key press that finds a note with a timing difference past the
\* BAD window has 150 < |diff| <= 200 and gets the fallback grade BAD/200 from
\* judge, carrying the signed diff, and the note is hit; and a note is marked
\* missed by a tick only once currentTime - note.time > 200.
C2_FallbackGradeThenLateMiss ==
    /\ (last.op = "keyDown" /\ last.k # 0 /\ Abs(last.diff) > 150) =>
          /\ Abs(last.diff) <= MISS_WINDOW
          /\ last.result = [judgment |-> "BAD", timeDiff |-> last.diff, score |-> 200]
          /\ notes[last.k].isHit
          /\ score.stats.bad >= 1
    /\ \A i \in DOMAIN notes :
          notes[i].isMissed => hist.missedAt[i] - notes[i].time > MISS_WINDOW

\* C2 witness: a key press 151 ms after the note's time was graded BAD
C2_Witness ==
    /\ last.op = "keyDown"
    /\ last.k # 0
    /\ last.diff = 151
    /\ last.result.judgment = "BAD"
    /\ notes[last.k].isHit

\* C3: every note that nobody pressed and that a tick found more than 200 ms
\* late was collected by checkMissedNotes in that tick and caused exactly one
\* ScoreSystem.miss(), so the MISS count is at least one.
C3_SweepCountsUnpressedNote ==
    \A i \in DOMAIN notes :
        (notes[i].isMissed /\ hist.keyJudged[i] = 0) =>
            /\ hist.sweepMiss[i] = 1
            /\ score.stats.miss >= 1

\* C4: with audio loaded and playing at Game.pause(), the currentTime read
\* right after Game.resume() equals the currentTime held at the pause.
C4_ResumeContinuousWithAudio ==
    (last.op = "resume" /\ last.mode = "audio") =>
        Clock_currentTime(clock, now) = last.held

\* C5: with no audio loaded, every read of currentTime while the state is
\* 'paused' returns the value held at Game.pause(), and the currentTime read
\* right after Game.resume() is that value too.
C5_ClockOnlyPauseFreezes ==
    /\ (game.state = "paused" /\ hist.heldMode = "clockOnly") =>
          Clock_currentTime(clock, now) = hist.held
    /\ (last.op = "resume" /\ last.mode = "clockOnly") =>
          Clock_currentTime(clock, now) = last.held

\* C7: findHittableNote never returns a note that has reached a final outcome
\* (tap hit, missed, hold completed, hold released early), and Game.onKeyDown
\* applies hit() plus addJudgment at most once per note.
C7_FinalNoteNotJudgedAgain ==
    /\ (last.op = "keyDown" /\ last.k # 0) => ~last.final
    /\ \A i \in DOMAIN notes : hist.keyJudged[i] <= 1

----------------------------------------------------------------------------
(* SpecScore: one ScoreSystem under addJudgment(result), miss() and reset(). *)
(* It begins after a streak of PERFECT hits of one of the lengths in         *)
(* ScoreStarts, made with addJudgment itself from the reset state.           *)
(* hist.calls counts the addJudgment and miss calls since the last reset;    *)
(* hist.pure tells that all of them were PERFECT/1000; hist.more counts the  *)
(* calls made after the initial streak.                                      *)

\* lengths of the initial streak: just below each step of the multiplier
ScoreStarts == {0, 8, 23, 48, 98}

\* bound: the calls made after the initial streak (reset() starts a new count)
MaxCalls == 4

\* the results addJudgment is called with: what judge returns, what Game passes
\* for a completed or released hold, and a MISS result
ScoreResults ==
    { [judgment |-> "PERFECT", timeDiff |-> 0, score |-> 1000],
      [judgment |-> "GREAT",   timeDiff |-> 0, score |-> 800],
      [judgment |-> "GOOD",    timeDiff |-> 0, score |-> 500],
      [judgment |-> "BAD",     timeDiff |-> 0, score |-> 200],
      [judgment |-> "PERFECT", timeDiff |-> 0, score |-> 500],
      [judgment |-> "MISS",    timeDiff |-> 0, score |-> 0] }

StreakResult == [judgment |-> "PERFECT", timeDiff |-> 0, score |-> 1000]

InitScore ==
    /\ now = 0
    /\ clock = Clock_reset
    /\ audio = NewAudio
    /\ loop = NewLoop
    /\ frames = {}
    /\ input = NewInput
    /\ game = NewGame
    /\ notes = << >>
    /\ holdingNotes = NoHolds
    /\ last = NoOp
    /\ \E k \in ScoreStarts :
          /\ score = AddTimes(ScoreSystem_reset, StreakResult, k)
          /\ hist = [calls |-> k, pure |-> TRUE, more |-> 0, streak |-> k, peak |-> k]

\* the length of the run of PERFECT/GREAT/GOOD judgments after one more judgment
StreakAfter(streak, judgment) ==
    IF judgment \in {"PERFECT", "GREAT", "GOOD"} THEN streak + 1 ELSE 0

ScoreFrame == <<now, clock, audio, loop, frames, input, game, notes, holdingNotes>>

\* scoreSystem.addJudgment(result)
ScoreAddJudgment(result) ==
    /\ hist.more < MaxCalls
    /\ score' = ScoreSystem_addJudgment(score, result)
    /\ last' = [op |-> "addJudgment", result |-> result, before |-> score]
    /\ hist' = [calls |-> hist.calls + 1, pure |-> (hist.pure /\ result = StreakResult),
                more |-> hist.more + 1,
                streak |-> StreakAfter(hist.streak, result.judgment),
                peak |-> Max(hist.peak, StreakAfter(hist.streak, result.judgment))]
    /\ UNCHANGED ScoreFrame

\* scoreSystem.miss()
ScoreMiss ==
    /\ hist.more < MaxCalls
    /\ score' = ScoreSystem_miss(score)
    /\ last' = [op |-> "miss", before |-> score]
    /\ hist' = [calls |-> hist.calls + 1, pure |-> FALSE, more |-> hist.more + 1,
                streak |-> 0, peak |-> hist.peak]
    /\ UNCHANGED ScoreFrame

\* scoreSystem.reset()
ScoreReset ==
    /\ score' = ScoreSystem_reset
    /\ last' = [op |-> "reset", before |-> score]
    /\ hist' = [calls |-> 0, pure |-> TRUE, more |-> 0, streak |-> 0, peak |-> 0]
    /\ UNCHANGED ScoreFrame

\* the result screen reads scoreSystem.getAccuracy() and getGrade()
ScoreRead ==
    /\ last' = [op |-> "read", accuracy |-> ScoreSystem_getAccuracy(score),
                grade |-> ScoreSystem_getGrade(score)]
    /\ UNCHANGED <<score, hist>>
    /\ UNCHANGED ScoreFrame

NextScore ==
    \/ \E result \in ScoreResults : ScoreAddJudgment(result)
    \/ ScoreMiss
    \/ ScoreReset
    \/ ScoreRead

SpecScore == InitScore /\ [][NextScore]_vars

\* the multiplier as the specification tabulates it, in percent
SpecMultiplier(k) ==
    CASE k < 10  -> 100
      [] k >= 10 /\ k <= 24 -> 110
      [] k >= 25 /\ k <= 49 -> 125
      [] k >= 50 /\ k <= 99 -> 150
      [] k >= 100 -> 200

RECURSIVE StreakScore(_)
\* sum over k = 1..n of floor(1000 * m(k))
StreakScore(n) ==
    IF n = 0 THEN 0 ELSE StreakScore(n - 1) + ((1000 * SpecMultiplier(n)) \div 100)

\* C11: addJudgment of PERFECT/GREAT/GOOD increments the combo, raises maxCombo
\* if exceeded and adds floor(points * m(new combo)) to the score; of BAD it
\* sets the combo to 0 and adds the raw points; so n PERFECTs in a row from a
\* reset state give score = sum of floor(1000 * m(k)), combo = maxCombo = n.
C11_AddJudgmentScoring ==
    /\ (last.op = "addJudgment" /\ last.result.judgment \in {"PERFECT", "GREAT", "GOOD"}) =>
          /\ score.combo = last.before.combo + 1
          /\ score.maxCombo = Max(last.before.maxCombo, score.combo)
          /\ score.score = last.before.score
                             + ((last.result.score * SpecMultiplier(score.combo)) \div 100)
    /\ (last.op = "addJudgment" /\ last.result.judgment = "BAD") =>
          /\ score.combo = 0
          /\ score.score = last.before.score + last.result.score
    /\ hist.pure =>
          /\ score.score = StreakScore(hist.calls)
          /\ score.combo = hist.calls
          /\ score.maxCombo = hist.calls

\* C11 witness: the tenth PERFECT in a row from the reset state brought the
\* score to 10100 with combo = maxCombo = 10
C11_Witness ==
    /\ last.op = "addJudgment"
    /\ hist.pure
    /\ hist.calls = 10
    /\ score.score = 10100
    /\ score.combo = 10
    /\ score.maxCombo = 10

\* C12: miss() increments only the MISS count, by one, and sets the combo to
\* 0; score, maxCombo and the PERFECT/GREAT/GOOD/BAD counts are unchanged.
C12_MissEffect ==
    last.op = "miss" =>
        /\ score.stats.miss = last.before.stats.miss + 1
        /\ score.combo = 0
        /\ score.score = last.before.score
        /\ score.maxCombo = last.before.maxCombo
        /\ score.stats.perfect = last.before.stats.perfect
        /\ score.stats.great = last.before.stats.great
        /\ score.stats.good = last.before.stats.good
        /\ score.stats.bad = last.before.stats.bad

\* C12 witness: a miss() that ended a combo of at least 10 with points scored
C12_Witness ==
    /\ last.op = "miss"
    /\ last.before.combo >= 10
    /\ last.before.score > 0
    /\ score.combo = 0
    /\ score.stats.miss = 1

\* the five counts of a ScoreSystem record, in order
CountsOf(s) ==
    <<s.stats.perfect, s.stats.great, s.stats.good, s.stats.bad, s.stats.miss>>

\* exactly one of the five counts went up, by exactly 1
OneCountUp(before, after) ==
    \E i \in 1..5 :
       /\ CountsOf(after)[i] = CountsOf(before)[i] + 1
       /\ \A j \in (1..5) \ {i} : CountsOf(after)[j] = CountsOf(before)[j]

\* C13: every addJudgment increments exactly one count by 1 and changes the
\* score by one application of its points (raw, or times the multiplier),
\* the fallback BAD included; every miss() increments only the MISS count by
\* 1; so the five counts sum to the number of addJudgment and miss calls
\* since the last reset.
C13_ExactlyOnceAccounting ==
    /\ last.op = "addJudgment" =>
          /\ OneCountUp(last.before, score)
          /\ score.score - last.before.score \in
                { last.result.score,
                  (last.result.score * SpecMultiplier(score.combo)) \div 100 }
    /\ last.op = "miss" =>
          /\ OneCountUp(last.before, score)
          /\ score.stats.miss = last.before.stats.miss + 1
    /\ TotalJudged(score) = hist.calls

\* C13 witness: a BAD worth 200 points (what the fallback returns) was added
\* after hits and a miss, and the counts sum to the calls made
C13_Witness ==
    /\ last.op = "addJudgment"
    /\ last.result.judgment = "BAD"
    /\ last.result.score = 200
    /\ score.stats.bad = 1
    /\ score.stats.miss >= 1
    /\ score.stats.perfect >= 8
    /\ TotalJudged(score) = hist.calls

----------------------------------------------------------------------------
(* Hold completion in a playing session (SpecPlay) *)

\* C14 as stated: every successful hold completion, natural or by a release
\* within 200 ms of endTime, is rewarded with the same PERFECT judgment with
\* the same base points (those of a PERFECT).
C14_SameRewardHoweverCompleted ==
    (last.op \in {"frame", "keyUp"} /\ last.completed = 1) =>
        /\ last.perfects = 1
        /\ last.gained = JUDGMENT_WINDOWS[1].score

\* C14, amended: each way of completing a hold has its own fixed PERFECT
\* reward, whenever it happens: a natural completion found by a tick adds one
\* PERFECT with base points 1000, a successful release adds one PERFECT with
\* base points 500 (the combo multiplier is 1.0 in these sessions).
C14_FixedRewardPerWayOfCompletion ==
    /\ (last.op = "frame" /\ last.completed = 1) =>
          /\ last.perfects = 1
          /\ last.gained = 1000
    /\ (last.op = "keyUp" /\ last.completed = 1) =>
          /\ last.perfects = 1
          /\ last.gained = 500
    /\ score.combo < 10

\* C14 witness: a hold released within 200 ms of its end was completed and
\* rewarded
C14_Witness ==
    /\ last.op = "keyUp"
    /\ last.completed = 1
    /\ last.gained = 500
    /\ \E i \in DOMAIN notes : notes[i].type = "hold" /\ notes[i].holdCompleted

\* a hold still held at its end was completed by a tick and rewarded
C14_WitnessNatural ==
    /\ last.op = "frame"
    /\ last.completed = 1
    /\ last.gained = 1000

----------------------------------------------------------------------------
(* Overlapping Game.start() calls (SpecGame) *)

\* C15: once the session is playing, a Game.start() call that was suspended at
\* the audio-initialisation await and completes later does not reset or
\* restart the clock: game time right after it is not less than right before.
C15_LateStartKeepsClock ==
    (last.op = "started" /\ last.wasPlaying) =>
        Clock_currentTime(clock, now) >= last.ctBefore

----------------------------------------------------------------------------
(* Failures while loading and starting (SpecGame) *)

\* C16: when Game.loadChart fails, the chart, the notes array and the game
\* state are exactly as they were before the call.
C16_FailedLoadLeavesSessionIntact ==
    (last.op = "load" /\ ~last.ok) =>
        /\ game.chart = last.chartBefore
        /\ notes = last.notesBefore
        /\ game.state = last.stateBefore

\* C17: when audioManager.init() fails during a Game.start() from 'ready', the
\* session is nevertheless 'playing' with the game loop and the clock running.
C17_StartSurvivesAudioInitFailure ==
    (last.op = "initFailed") =>
        /\ game.state = "playing"
        /\ loop.isRunning
        /\ clock.isRunning

----------------------------------------------------------------------------
(* SpecInput: the InputManager alone under keyboard events.  hist records, *)
(* per lane, the callback delivered last.                                   *)

\* the keys pressed: both keys of lane 0, one key of lane 1, an unbound key
InputKeys == {"KeyD", "ArrowLeft", "KeyF", "KeyQ"}

InitInput ==
    /\ now = 0
    /\ clock = Clock_reset
    /\ audio = NewAudio
    /\ loop = NewLoop
    /\ frames = {}
    /\ input = [NewInput EXCEPT !.listening = TRUE]
    /\ game = NewGame
    /\ notes = << >>
    /\ holdingNotes = NoHolds
    /\ score = ScoreSystem_reset
    /\ last = NoOp
    /\ hist = [l \in Lanes |-> "none"]

InputFrame == <<now, clock, audio, loop, frames, game, notes, holdingNotes, score>>

\* hist after the callback for lane was called (-1: no callback)
Delivered(h, lane, what) == IF lane = -1 THEN h ELSE [h EXCEPT ![lane] = what]

\* the keydown listener ran and returned r
InputDownResult(r, code, repeat) ==
    /\ input' = [r.input EXCEPT !.phys = @ \cup {code}]
    /\ hist' = Delivered(hist, r.lane, "down")
    /\ last' = [op |-> "keyDown", code |-> code, repeat |-> repeat, lane |-> r.lane,
                before |-> IF r.lane = -1 THEN "none" ELSE hist[r.lane]]

\* a keydown event: auto-repeat events come only for a key that is down
InputKeyDown(code, repeat) ==
    /\ repeat => code \in input.phys
    /\ InputDownResult(InputManager_handleKeyDown(input, code, repeat), code, repeat)
    /\ UNCHANGED InputFrame

\* the keyup listener ran and returned r
InputUpResult(r, code) ==
    /\ input' = [r.input EXCEPT !.phys = @ \ {code}]
    /\ hist' = Delivered(hist, r.lane, "up")
    /\ last' = [op |-> "keyUp", code |-> code, repeat |-> FALSE, lane |-> r.lane,
                before |-> IF r.lane = -1 THEN "none" ELSE hist[r.lane],
                wasDown |-> code \in input.phys]

\* a keyup event
InputKeyUp(code) ==
    /\ InputUpResult(InputManager_handleKeyUp(input, code), code)
    /\ UNCHANGED InputFrame

NextInput ==
    \/ \E code \in InputKeys, repeat \in BOOLEAN : InputKeyDown(code, repeat)
    \/ \E code \in InputKeys : InputKeyUp(code)

SpecInput == InitInput /\ [][NextInput]_vars

\* C18: a laneDown callback is delivered for a lane only if the callback
\* delivered last for that lane was not a laneDown, so between two laneDown
\* events of a lane there is a laneUp of that lane.
C18_NoTwoLaneDownsInARow ==
    (last.op = "keyDown" /\ last.lane # -1) => last.before # "down"

\* the second key of lane 0 is pressed while the first is held and produces no
\* second laneDown
C18_Witness ==
    /\ last.op = "keyDown" /\ ~last.repeat /\ last.lane = -1
    /\ last.code = "ArrowLeft" /\ "KeyD" \in input.phys
    /\ hist[0] = "down"

\* a lane is pressed again after its laneUp
C18_WitnessAgain ==
    last.op = "keyDown" /\ last.lane = 0 /\ last.before = "up"

----------------------------------------------------------------------------
(* SpecSession: a started session (as SpecPlay) in which the player also    *)
(* pauses, resumes, resets with R and starts again with Space.              *)

\* the readings of performance.now() during the session, in increasing order
SessionInstants == <<1, 251, 452, 2700>>

\* bound: how many of SessionInstants are used
NumSessionInstants == 4

InitSession ==
    /\ now = SessionInstants[1]
    /\ input = [NewInput EXCEPT !.listening = TRUE]
    /\ last = NoOp
    /\ \E c \in DOMAIN Charts : IsSys(StartedSession(c))

\* performance.now() moves on to a later reading
SessionAdvance ==
    /\ \E k \in 1..NumSessionInstants :
          /\ k <= Len(SessionInstants)
          /\ SessionInstants[k] > now
          /\ now' = SessionInstants[k]
    /\ last' = NoOp
    /\ UNCHANGED <<clock, audio, loop, frames, input, game, notes, holdingNotes, score, hist>>

NextSession ==
    \/ SessionAdvance
    \/ \E f \in frames : GameFrame(f)
    \/ \E code \in UsedKeys : KeyDownEvent(code)
    \/ \E code \in UsedKeys : KeyUpEvent(code)
    \/ SpaceStart
    \/ SpacePause
    \/ SpaceResume
    \/ ResetCall

SpecSession == InitSession /\ [][NextSession]_vars

\* the notes Game creates from the loaded chart
FreshNotes == ChartNotes(game.chart, << >>)

\* C19: right after Game.reset() the state is 'ready', the game loop is
\* stopped, the clock is not running and reads 0, score, combo, maxCombo and
\* the five counts are 0, no hold is tracked, and every note is as newly
\* created from the chart, all flags false.
C19_ResetRestoresReady ==
    (last.op = "reset") =>
        /\ game.state = "ready"
        /\ ~loop.isRunning
        /\ ~clock.isRunning /\ Clock_currentTime(clock, now) = 0
        /\ score.score = 0 /\ score.combo = 0 /\ score.maxCombo = 0
        /\ TotalJudged(score) = 0
        /\ holdingNotes = NoHolds
        /\ notes = FreshNotes
        /\ \A i \in DOMAIN notes :
              /\ ~notes[i].isActive /\ ~notes[i].isHit /\ ~notes[i].isMissed
              /\ ~notes[i].isHolding /\ ~notes[i].holdCompleted

\* reset in the middle of play, with a judgment counted and a hold tracked
C19_Witness ==
    /\ last.op = "reset" /\ last.stateBefore = "playing"
    /\ last.judgedBefore > 0 /\ last.holdsBefore /\ last.loopBefore

\* reset of an ended session
C19_WitnessEnded ==
    last.op = "reset" /\ last.stateBefore = "ended" /\ last.judgedBefore > 0

----------------------------------------------------------------------------
(* SpecSweep: JudgmentSystem.checkMissedNotes applied once to two notes, in *)
(* every combination of the states a note gets into through its own        *)
(* operations, at the times around note.time + MISS_WINDOW.                 *)

\* bound: how far from note.time + MISS_WINDOW the sweep is called
SweepSpan == 2

\* the states of the note of chart entry d: new, active, hit (a hold: held),
\* released early, completed by a release, missed
SweepStates(d) ==
    { NewNote(d),
      Note_updatePosition(NewNote(d), d.time),
      Note_hit(Note_updatePosition(NewNote(d), d.time)),
      Note_release(Note_hit(Note_updatePosition(NewNote(d), d.time)), d.time + 50).note,
      Note_release(Note_hit(Note_updatePosition(NewNote(d), d.time)),
                   d.time + d.duration).note,
      Note_miss(Note_updatePosition(NewNote(d), d.time)) }

SweepNoteStates == UNION { SweepStates(d) : d \in SpecNoteData }

InitSweep ==
    /\ Constructed
    /\ hist = NewHist(0)
    /\ last = NoOp
    /\ notes \in { <<a, b>> : a \in SweepNoteStates, b \in SweepNoteStates }
    /\ now \in { 1000 + MISS_WINDOW + d : d \in (0 - SweepSpan)..SweepSpan }

\* judgmentSystem.checkMissedNotes(notes, now)
SweepCall ==
    /\ last.op = "none"
    /\ notes' = JudgmentSystem_checkMissedNotes(notes, now).notes
    /\ last' = [op |-> "sweep", before |-> notes,
                missed |-> JudgmentSystem_checkMissedNotes(notes, now).missed]
    /\ UNCHANGED <<now, clock, audio, loop, frames, input, game, holdingNotes, score, hist>>

NextSweep == SweepCall

SpecSweep == InitSweep /\ [][NextSweep]_vars

\* note i was returned by the sweep and is as after miss()
SweptAsMissed(i) ==
    /\ i \in last.missed
    /\ notes[i] = [last.before[i] EXCEPT !.isMissed = TRUE, !.isActive = FALSE,
                                         !.isHolding = FALSE]

\* note i was not returned by the sweep and is unchanged
SweptUntouched(i) == i \notin last.missed /\ notes[i] = last.before[i]

\* note i was unprocessed and overdue (t - time > 200) when the sweep ran
OverdueUnprocessed(i) ==
    /\ IF last.before[i].type = "tap"
       THEN ~last.before[i].isHit /\ ~last.before[i].isMissed
       ELSE ~last.before[i].holdCompleted /\ ~last.before[i].isMissed
    /\ now - last.before[i].time > 200

C20_WitnessOnTime ==
    /\ last.op = "sweep" /\ now = 1200
    /\ last.before[1] = NewNote([type |-> "tap", time |-> 1000, lane |-> 0, duration |-> 0])
    /\ SweptUntouched(1)

----------------------------------------------------------------------------
(* SpecFind: JudgmentSystem.findHittableNote applied once to an array of    *)
(* three notes, for each lane, at the times around 1000.                    *)

\* bound: how far from 1000 the time of the call is
FindSpan == 1

\* the notes of the array: unpressed taps 200 ms before and after 1000 and at
\* 1001 in both lanes, a tap that was hit, a hold being held, an unpressed hold
FindNoteStates ==
    { NewNote([type |-> "tap", time |-> t, lane |-> l, duration |-> 0]) :
          t \in {800, 1001, 1200}, l \in {0, 1} }
    \cup { Note_hit(NewNote([type |-> "tap", time |-> 1000, lane |-> 0, duration |-> 0])),
           Note_hit(NewNote([type |-> "hold", time |-> 1200, lane |-> 0, duration |-> 400])),
           NewNote([type |-> "hold", time |-> 800, lane |-> 0, duration |-> 400]) }

InitFind ==
    /\ Constructed
    /\ hist = NewHist(0)
    /\ last = NoOp
    /\ notes \in { <<a, b, c>> : a \in FindNoteStates, b \in FindNoteStates,
                                 c \in FindNoteStates }
    /\ now \in (1000 - FindSpan)..(1000 + FindSpan)

\* judgmentSystem.findHittableNote(notes, lane, now)
FindCall(lane) ==
    /\ last.op = "none"
    /\ last' = [op |-> "find", lane |-> lane,
                found |-> JudgmentSystem_findHittableNote(notes, lane, now)]
    /\ UNCHANGED <<now, clock, audio, loop, frames, input, game, notes, holdingNotes,
                   score, hist>>

NextFind == \E lane \in {0, 1} : FindCall(lane)

SpecFind == InitFind /\ [][NextFind]_vars

\* |t - n.time| for note i
FindDistance(i) ==
    IF now >= notes[i].time THEN now - notes[i].time ELSE notes[i].time - now

\* the notes of the lane asked for that are unprocessed and within 200 ms
FindCandidates ==
    { i \in DOMAIN notes :
        /\ notes[i].lane = last.lane
        /\ IF notes[i].type = "tap" THEN ~notes[i].isHit /\ ~notes[i].isMissed
           ELSE ~notes[i].holdCompleted /\ ~notes[i].isMissed
        /\ FindDistance(i) <= 200 }

\* C21: findHittableNote returns none iff no note of the lane is unprocessed
\* and within 200 ms; otherwise it returns such a note of smallest distance,
\* the first in array order among those at that distance.
C21_ClosestCandidateFirstOnTie ==
    (last.op = "find") =>
        IF FindCandidates = {} THEN last.found = 0
        ELSE /\ last.found \in FindCandidates
             /\ \A j \in FindCandidates :
                   /\ FindDistance(last.found) <= FindDistance(j)
                   /\ FindDistance(j) = FindDistance(last.found) => last.found <= j

\* two candidates at the same distance, exactly 200 ms: the first is returned
C21_Witness ==
    /\ last.op = "find" /\ last.found = 1
    /\ 3 \in FindCandidates /\ FindDistance(3) = 200 /\ FindDistance(1) = 200
    /\ 2 \notin FindCandidates

\* no candidate: a note 201 ms away, a note in the other lane, a processed note
C21_WitnessNone ==
    /\ last.op = "find" /\ last.found = 0 /\ FindCandidates = {}
    /\ \E i \in DOMAIN notes : notes[i].lane = last.lane /\ FindDistance(i) = 201

----------------------------------------------------------------------------
(* Note.updatePosition and lateness (SpecNote) *)

\* the note updatePosition was called on was more than 200 ms late and not hit
LateUnhit == last.before.time - last.t < -200 /\ ~last.before.isHit

\* C22: updatePosition(t) marks a note missed (missed = true, active = false)
\* iff time - t < -200 and the note is not hit; otherwise, in particular at
\* exactly 200 ms late or when the note has been hit, it leaves missed as it was.
C22_MissedIffLateAndUnhit ==
    (last.op = "updatePosition") =>
        /\ LateUnhit => (notes[1].isMissed /\ ~notes[1].isActive)
        /\ ~LateUnhit => (notes[1].isMissed = last.before.isMissed)
        /\ last.before.isHit => (notes[1].isMissed = last.before.isMissed)

\* the unpressed note is marked missed at 1201, 201 ms late
C22_Witness ==
    /\ last.op = "updatePosition" /\ last.t = 1201
    /\ ~last.before.isHit /\ ~last.before.isMissed
    /\ notes[1].isMissed /\ ~notes[1].isActive

\* at 1200, exactly 200 ms late, the unpressed note is not marked missed
C22_WitnessOnTime ==
    /\ last.op = "updatePosition" /\ last.t = 1200
    /\ ~last.before.isHit /\ ~notes[1].isMissed /\ notes[1].isActive

\* a hit note is passed over at 1201
C22_WitnessHit ==
    /\ last.op = "updatePosition" /\ last.t = 1201
    /\ last.before.isHit /\ ~notes[1].isMissed

----------------------------------------------------------------------------
(* Natural completion of a hold (SpecPlay, SpecGame; the charts have one    *)
(* note, so every judgment of a session is a judgment of that note)         *)

\* C23: a tick that finds a held hold at or past its end makes it
\* holdCompleted and inactive and records exactly one judgment for it; once a
\* hold is completed, later ticks, key releases and key presses record no
\* further judgment for it.
C23_NaturalCompletionJudgedOnce ==
    /\ (last.op = "frame" /\ last.completed = 1) =>
          /\ last.judged = 1 /\ last.perfects = 1
          /\ \A i \in DOMAIN notes : notes[i].holdCompleted => ~notes[i].isActive
    /\ (last.op \in {"frame", "keyUp"} /\ last.doneBefore) => last.judged = 0
    /\ (last.op = "keyDown" /\ last.k # 0) => ~notes[last.k].holdCompleted
    /\ \A i \in DOMAIN notes : hist.completed[i] <= 1

\* the key of the lane is let go after a tick completed the hold
C23_Witness ==
    /\ last.op = "keyUp" /\ last.lane = 0 /\ last.doneBefore /\ last.judged = 0
    /\ \E i \in DOMAIN notes : hist.completed[i] = 1 /\ notes[i].holdCompleted

\* a tick runs after the tick that completed the hold
C23_WitnessLaterTick ==
    /\ last.op = "frame" /\ last.doneBefore /\ game.state = "playing"
    /\ \E i \in DOMAIN notes : hist.completed[i] = 1

----------------------------------------------------------------------------
(* Outcomes of a note exclude each other (SpecSession, SpecGame) *)

\* C24: no note is both hit and missed, and no hold note is both
\* holdCompleted and missed.
C24_OutcomesExclusive ==
    \A i \in DOMAIN notes :
        /\ ~(notes[i].isHit /\ notes[i].isMissed)
        /\ ~(notes[i].type = "hold" /\ notes[i].holdCompleted /\ notes[i].isMissed)

\* a tick has run on a hit note more than 200 ms after its time, past the
\* lateness tests of updatePosition and checkMissedNotes
C24_Witness ==
    /\ last.op = "frame" /\ game.state = "playing"
    /\ \E i \in DOMAIN notes :
          /\ notes[i].isHit /\ ~notes[i].isMissed
          /\ Clock_currentTime(clock, now) - notes[i].time > MISS_WINDOW

\* the key of the lane is pressed after the note was missed
C24_WitnessMissedThenPressed ==
    /\ last.op = "keyDown" /\ last.lane = 0 /\ game.state = "playing"
    /\ \E i \in DOMAIN notes :
          /\ notes[i].isMissed /\ ~notes[i].isHit
          /\ Clock_currentTime(clock, now) - notes[i].time > MISS_WINDOW

----------------------------------------------------------------------------
(* Combo and maxCombo (SpecScore).  hist.streak is the number of consecutive *)
(* PERFECT/GREAT/GOOD judgments since the last BAD, MISS or reset, and      *)
(* hist.peak the largest value it has had since the last reset.             *)

\* C25: combo is the number of consecutive PERFECT/GREAT/GOOD judgments
\* since the most recent BAD, MISS or reset, maxCombo is the largest value
\* combo has taken since the last reset, and maxCombo >= combo >= 0.
C25_ComboIsCurrentStreak ==
    /\ score.combo = hist.streak
    /\ score.maxCombo = hist.peak
    /\ score.maxCombo >= score.combo
    /\ score.combo >= 0

\* a hit right after a BAD: the combo is 1 again, below the earlier maximum
C25_Witness ==
    /\ last.op = "addJudgment" /\ last.result.judgment = "GOOD"
    /\ last.before.combo = 0 /\ last.before.stats.bad > 0
    /\ score.combo = 1 /\ score.maxCombo > 1

----------------------------------------------------------------------------
(* The combo multiplier as a function of the combo (SpecScore; multipliers  *)
(* in percent).  The combos run up to the longest streak of the session.    *)

\* C26: the multiplier is a non-decreasing step function of the combo with
\* its steps exactly at 10, 25, 50 and 100 (1.0 at 9, 1.1 at 10 and 24, 1.25
\* at 25 and 49, 1.5 at 50 and 99, 2.0 at 100), and the score, to which
\* floor(points * multiplier) is added, is an integer.
C26_MultiplierSteps ==
    /\ \A a \in 0..score.maxCombo :
          /\ ScoreSystem_getComboMultiplier(a) <= ScoreSystem_getComboMultiplier(score.maxCombo)
          /\ (a > 0 /\ ScoreSystem_getComboMultiplier(a) # ScoreSystem_getComboMultiplier(a - 1))
                => a \in {10, 25, 50, 100}
          /\ a \in {10, 25, 50, 100}
                => ScoreSystem_getComboMultiplier(a) > ScoreSystem_getComboMultiplier(a - 1)
    /\ ScoreSystem_getComboMultiplier(9) = 100
    /\ ScoreSystem_getComboMultiplier(10) = 110
    /\ ScoreSystem_getComboMultiplier(24) = 110
    /\ ScoreSystem_getComboMultiplier(25) = 125
    /\ ScoreSystem_getComboMultiplier(49) = 125
    /\ ScoreSystem_getComboMultiplier(50) = 150
    /\ ScoreSystem_getComboMultiplier(99) = 150
    /\ ScoreSystem_getComboMultiplier(100) = 200
    /\ score.score \in Nat
    /\ (last.op = "addJudgment" /\ score.combo > 0) =>
          100 * (score.score - last.before.score)
              <= last.result.score * ScoreSystem_getComboMultiplier(score.combo)

\* the hundredth hit in a row: GREAT 800 counted double
C26_Witness ==
    /\ last.op = "addJudgment" /\ last.result.judgment = "GREAT"
    /\ score.combo = 100 /\ last.before.combo = 99
    /\ score.score - last.before.score = 1600

\* a streak that has passed the step at 10
C26_WitnessStep ==
    /\ last.op = "addJudgment" /\ score.combo = 11 /\ score.maxCombo = 11

----------------------------------------------------------------------------
(* Accuracy and grade (SpecScore).  An accuracy is the fraction num / den,  *)
(* den > 0.                                                                 *)

\* the weighted sum of the counts
SpecWeighted ==
    100 * score.stats.perfect + 80 * score.stats.great + 50 * score.stats.good
        + 20 * score.stats.bad + 0 * score.stats.miss

\* C27: getAccuracy() is exactly 100 when nothing has been judged since the
\* last reset, otherwise (100 perfect + 80 great + 50 good + 20 bad + 0 miss)
\* / total, and it lies in [0, 100].
C27_AccuracyIsWeightedAverage ==
    (last.op = "read") =>
        /\ TotalJudged(score) = 0 => last.accuracy = [num |-> 100, den |-> 1]
        /\ TotalJudged(score) > 0 =>
              /\ last.accuracy.den > 0
              /\ last.accuracy.num * TotalJudged(score) = SpecWeighted * last.accuracy.den
        /\ 0 <= last.accuracy.num
        /\ last.accuracy.num <= 100 * last.accuracy.den

\* nothing judged: accuracy 100
C27_Witness ==
    /\ last.op = "read" /\ hist.calls = 0 /\ hist.more = 0
    /\ TotalJudged(score) = 0 /\ last.accuracy.num = 100

\* a PERFECT, a GOOD, a BAD and a MISS: accuracy 170 / 4
C27_WitnessMixed ==
    /\ last.op = "read"
    /\ score.stats = [perfect |-> 1, great |-> 0, good |-> 1, bad |-> 1, miss |-> 1]
    /\ last.accuracy.num * 4 = 170 * last.accuracy.den

\* accuracy >= x
AccuracyAtLeast(x) == last.accuracy.num >= x * last.accuracy.den

\* C28: the grade is S iff accuracy >= 95, A iff 90 <= accuracy < 95, B iff
\* 80 <= accuracy < 90, C iff 70 <= accuracy < 80, D iff 60 <= accuracy < 70,
\* F otherwise; with no judgments it is S.
C28_GradeThresholds ==
    (last.op = "read") =>
        /\ last.grade = "S" <=> AccuracyAtLeast(95)
        /\ last.grade = "A" <=> (AccuracyAtLeast(90) /\ ~AccuracyAtLeast(95))
        /\ last.grade = "B" <=> (AccuracyAtLeast(80) /\ ~AccuracyAtLeast(90))
        /\ last.grade = "C" <=> (AccuracyAtLeast(70) /\ ~AccuracyAtLeast(80))
        /\ last.grade = "D" <=> (AccuracyAtLeast(60) /\ ~AccuracyAtLeast(70))
        /\ last.grade = "F" <=> ~AccuracyAtLeast(60)
        /\ TotalJudged(score) = 0 => last.grade = "S"

\* accuracy exactly 95 (three PERFECT, one GREAT) grades S
C28_Witness ==
    /\ last.op = "read" /\ last.grade = "S"
    /\ score.stats = [perfect |-> 3, great |-> 1, good |-> 0, bad |-> 0, miss |-> 0]

\* accuracy exactly 60 (a PERFECT and a BAD) grades D
C28_WitnessLow ==
    /\ last.op = "read" /\ last.grade = "D"
    /\ score.stats = [perfect |-> 1, great |-> 0, good |-> 0, bad |-> 1, miss |-> 0]

----------------------------------------------------------------------------
(* Rendering in a frame (SpecLoop; times in thirds of a millisecond, so the *)
(* fraction accumulator / timestep is in [0, 1) iff 0 <= accumulator < 50)  *)

\* C29: in every frame whose body runs, onRender is invoked exactly once,
\* with the accumulator as the frame's updates have left it, and that is
\* non-negative and strictly below one timestep.
C29_RenderOncePerFrame ==
    (last.op \in {"frame", "start"} /\ last.log.ran) =>
        /\ last.log.renders = 1
        /\ last.log.interpolation = loop.accumulator
        /\ last.log.interpolation >= 0
        /\ last.log.interpolation < FIXED_TIMESTEP
        /\ last.accBefore >= 0 /\ last.accBefore < FIXED_TIMESTEP

\* a frame that ran several updates and rendered with a fraction left over
C29_Witness ==
    /\ last.op = "frame" /\ last.log.ran
    /\ last.log.updates >= 2 /\ last.log.renders = 1
    /\ last.log.interpolation > 0

\* a frame too short for an update still renders once
C29_WitnessNoUpdate ==
    /\ last.op = "frame" /\ last.log.ran
    /\ last.log.updates = 0 /\ last.log.renders = 1 /\ last.log.interpolation > 0

----------------------------------------------------------------------------
(* start() and stop() called again (SpecLoop) *)

\* C30: start() on a running loop changes nothing: no frame is requested,
\* the accumulator and the last-frame time stay; stop(), also on a stopped
\* loop or twice in a row, leaves the loop stopped with no frame scheduled.
C30_StartStopIdempotent ==
    /\ (last.op = "start" /\ last.wasRunning) =>
          /\ ~last.log.ran
          /\ loop.isRunning
          /\ frames = last.framesBefore
          /\ loop.accumulator = last.accBefore
          /\ Thirds(now - loop.lastTime) = last.elapsed
    /\ (last.op = "stop" /\ ~last.wasRunning) =>
          /\ ~loop.isRunning
          /\ loop.animationFrameId = 0
          /\ frames = {}

----------------------------------------------------------------------------
(* SpecTimer: one Clock whose currentTime is read between start(offset),    *)
(* pause(), reset() and the passing of time.  hist.phase is "fresh" since   *)
(* construction or reset(), "running" since a start() that started the      *)
(* clock, "paused" since a pause() that stopped it; hist.prev is the        *)
(* previous read of the phase (for "paused": first the value the clock      *)
(* showed at the moment pause() was called), -1 when there is none;         *)
(* hist.at is the instant hist.prev was taken.                              *)

InitTimer ==
    /\ Constructed
    /\ now = Instants[1]
    /\ notes = << >>
    /\ last = NoOp
    /\ hist = [phase |-> "fresh", prev |-> -1, at |-> 0]

\* clock.start(o)
TimerStart(o) ==
    /\ clock' = Clock_start(clock, o, now)
    /\ last' = [op |-> "start", offset |-> o]
    /\ hist' = IF clock.isRunning THEN hist
               ELSE [phase |-> "running", prev |-> -1, at |-> now]
    /\ UNCHANGED ClockFrame

\* clock.pause()
TimerPause ==
    /\ clock' = Clock_pause(clock, now)
    /\ last' = [op |-> "pause"]
    /\ hist' = IF clock.isRunning
               THEN [phase |-> "paused", prev |-> Clock_currentTime(clock, now),
                     at |-> now]
               ELSE hist
    /\ UNCHANGED ClockFrame

\* clock.reset()
TimerReset ==
    /\ clock' = Clock_reset
    /\ last' = [op |-> "reset"]
    /\ hist' = [phase |-> "fresh", prev |-> -1, at |-> 0]
    /\ UNCHANGED ClockFrame

\* clock.currentTime is read
TimerRead ==
    /\ last' = [ op |-> "read", value |-> Clock_currentTime(clock, now),
                 phase |-> hist.phase, prev |-> hist.prev,
                 waited |-> now - hist.at ]
    /\ hist' = [hist EXCEPT !.prev = Clock_currentTime(clock, now), !.at = now]
    /\ UNCHANGED <<clock, ClockFrame>>

NextTimer ==
    \/ Advance
    \/ \E o \in ClockOffsets : TimerStart(o)
    \/ TimerPause
    \/ TimerReset
    \/ TimerRead

SpecTimer == InitTimer /\ [][NextTimer]_vars

\* C31: with no reset() in between, a read of currentTime on a running clock
\* is (now - startTime) + offset and is not below the previous read of the
\* same run; a read on a paused clock is the value the clock showed when it
\* was paused, however long ago; a read before the first start() is the
\* offset, which is 0.
C31_ReadsByPhase ==
    last.op = "read" =>
        /\ last.phase = "running" =>
              /\ last.value = (now - clock.startTime) + clock.offset
              /\ last.prev # -1 => last.value >= last.prev
        /\ last.phase = "paused" => last.value = last.prev
        /\ last.phase = "fresh" => (last.value = clock.offset /\ last.value = 0)

\* a paused clock read again after wall time has passed since the last read
C31_Witness ==
    /\ last.op = "read" /\ last.phase = "paused"
    /\ last.waited > 0 /\ last.value > 40

\* a running clock read twice with time passing in between
C31_WitnessRunning ==
    /\ last.op = "read" /\ last.phase = "running"
    /\ last.prev # -1 /\ last.waited > 0 /\ last.value > last.prev

\* a clock never started, read after time has passed
C31_WitnessFresh ==
    /\ last.op = "read" /\ last.phase = "fresh" /\ now > Instants[1]

----------------------------------------------------------------------------
(* Frames queued with the host (SpecLoop) *)

\* C32: whatever start(), stop() (also from inside onUpdate or onRender) and
\* host frame firings have happened, at most one frame callback is queued
\* with the host, and a frame the host fires runs the loop body at most once.
C32_AtMostOneFrameQueued ==
    /\ Cardinality(frames) <= 1
    /\ last.op = "frame" => last.log.renders <= 1

----------------------------------------------------------------------------
(* The notes when the song ends (SpecPlay) *)

\* C33: when a tick has seen the song end (the state is 'ended'), every note
\* is processed, whatever the player pressed or released.
C33_AllProcessedAtSongEnd ==
    game.state = "ended" => \A i \in DOMAIN notes : Note_isProcessed(notes[i])

----------------------------------------------------------------------------
(* Tracked holds and the keys physically down (SpecSession) *)

\* C34: whenever a hold note is tracked as held in a lane (an entry of
\* holdingNotes whose note has isHolding), a key of that lane is physically
\* down; so a tick awards a hold its completion only with the lane pressed,
\* also when the session was paused and resumed in between.
C34_TrackedHoldMeansLanePressed ==
    /\ \A lane \in Lanes :
          (holdingNotes[lane] # 0 /\ notes[holdingNotes[lane]].isHolding) =>
              input.phys \cap KEY_BINDINGS[lane] # {}
    /\ (last.op = "frame" /\ last.completed > 0) =>
          \A i \in DOMAIN notes :
              (notes[i].holdCompleted /\ holdingNotes[notes[i].lane] = 0) =>
                  input.phys \cap KEY_BINDINGS[notes[i].lane] # {}

----------------------------------------------------------------------------
(* laneUp deliveries (SpecInput) *)

\* C35: when the player lets go of a key and a laneUp callback is delivered
\* for its lane, the callback delivered last for that lane was a laneDown and
\* no key bound to the lane is still physically held; so the events delivered
\* for a lane alternate laneDown, laneUp, laneDown, ...
C35_LaneUpOnlyAfterDownAndAllReleased ==
    (last.op = "keyUp" /\ last.wasDown /\ last.lane # -1) =>
        /\ last.before = "down"
        /\ input.phys \cap KEY_BINDINGS[last.lane] = {}

----------------------------------------------------------------------------
(* Ticks and lane events outside play (SpecSession) *)

\* C36: while the state is not 'playing', a frame of the loop with its
\* fixed-timestep ticks, a key press and a key release each leave every
\* note, the whole score state and the tracked holds as they were.
C36_IdleHandlersChangeNothing ==
    [][ (game.state # "playing" /\ last'.op \in {"frame", "keyDown", "keyUp"}) =>
            /\ notes' = notes
            /\ score' = score
            /\ holdingNotes' = holdingNotes ]_vars

\* the lane of a tracked hold was released while the session was paused
C36_Witness ==
    /\ game.state = "paused"
    /\ last.op = "keyUp" /\ last.lane # -1
    /\ holdingNotes[last.lane] # 0
    /\ notes[holdingNotes[last.lane]].isHolding

\* a frame ran at least one tick while the session was paused
C36_WitnessTick ==
    /\ last.op = "frame" /\ last.stateBefore = "paused" /\ last.ticked
    /\ game.state = "paused"

\* a lane was pressed after the song had ended
C36_WitnessEnded ==
    /\ game.state = "ended"
    /\ last.op = "keyDown" /\ last.lane # -1

====
